---- MODULE Spec2Model ----
(***************************************************************************)
(* Byzantine agreement over a partially connected graph.                   *)
(*                                                                         *)
(* The module models src/model/old/node.py: the class PartialTopologyBFT   *)
(* (graph connectivity, disjoint-path selection, multipath relay, the oral *)
(* and signed round loops, final voting, the consensus check) and the      *)
(* per-node operations of class Node.                                      *)
(*                                                                         *)
(* Python dictionaries keep insertion order; node_ids is that order for    *)
(* self.nodes and self.graph (both are assigned together by add_node and   *)
(* set_commander).  A Python set of small non-negative integers iterates   *)
(* in ascending order in CPython; the adjacency sets are iterated that way.*)
(***************************************************************************)
EXTENDS Integers, Sequences, FiniteSets, TLC

VARIABLES
    node_ids,           \* insertion order of the keys of self.nodes / self.graph
    graph,              \* self.graph: node id -> set of neighbour ids
    is_traitor,         \* Node.is_traitor of every registered node
    commander_id,       \* self.commander_id
    initial_value,      \* Commander.initial_value of nodes[commander_id], "None" when that node is a plain Node
    received_messages,  \* Node.received_messages: id -> round -> list of <<value, path>>
    decision,           \* Node.decision of every registered node
    pc,                 \* position of the caller in a consensus run
    call,               \* the consensus call in progress: variant, m, initial_value argument
    round_num,          \* loop variable of the round loop
    source_idx,         \* position in self.nodes of the "for source" loop (0: not in it)
    target_idx,         \* position in self.nodes of the "for target" loop (0: not in it)
    source_value,       \* the value the current source hands to its multipath sends
    ret,                \* what the last consensus call returned: nothing yet, None, or the decisions
    checked,            \* last check_consensus call: its argument and its result
    query,              \* last call of a single operation: its arguments and its result
    commanders,         \* the ids whose node object in self.nodes is a Commander
    network_nodes,      \* Network.nodes: id -> the instance whose node object is registered
    other_messages,     \* Node.received_messages of the nodes of a second instance
    other_decision,     \* Node.decision of the nodes of a second instance
    first_run,          \* the call and the return value of the run made on the other instance
    network_f,          \* NetworkState.f
    state,              \* Node.state of the nodes of NetworkState.nodes, by node id
    security_level,     \* NetworkState.security_level
    current_round,      \* ConsensusEngine.current_round
    failed_rounds_count,    \* ConsensusEngine.failed_rounds_count
    failsafe_active,        \* ConsensusEngine.failsafe_active
    current_door_state,     \* ConsensusEngine.current_door_state
    pre_prepare_messages,   \* ConsensusEngine.pre_prepare_messages
    prepare_messages,       \* ConsensusEngine.prepare_messages
    commit_messages,        \* ConsensusEngine.commit_messages
    result              \* what the last call on the door system returned

\* the variables of the door system of src/model/system.py
engine_vars == <<network_f, state, security_level, current_round, failed_rounds_count,
                 failsafe_active, current_door_state, pre_prepare_messages,
                 prepare_messages, commit_messages, result>>

\* the variables of the partial-topology system of src/model/old
topology_vars == <<node_ids, graph, is_traitor, commander_id, initial_value,
                   received_messages, decision, pc, call, round_num, source_idx, target_idx,
                   source_value, ret, checked, query, commanders, network_nodes,
                   other_messages, other_decision, first_run>>

vars == <<node_ids, graph, is_traitor, commander_id, initial_value,
          received_messages, decision, pc, call, round_num, source_idx, target_idx,
          source_value, ret, checked, query, commanders, network_nodes,
          other_messages, other_decision, first_run, engine_vars>>

(***************************************************************************)
(* Bounds of the model.                                                    *)
(***************************************************************************)
MaxNodes == 4       \* topologies of the consensus runs have 2..MaxNodes nodes
MaxGraphNodes == 4  \* graphs given to the pure graph operations have 2..MaxGraphNodes nodes
MaxM == 1           \* fault bounds m range over 0..MaxM
MaxK == 3           \* path counts k asked of find_disjoint_paths range over 0..MaxK
MaxRounds == 2      \* max_rounds given to BFTTester.run_consensus ranges over 0..MaxRounds
MaxLogLen == 3      \* the logs built by direct receive_message calls hold up to MaxLogLen entries
MaxF == 1           \* the door system is built with fault tolerance f in 0..MaxF (3f+1 nodes)
MaxFailedRounds == 11   \* consensus rounds are run while failed_rounds_count is below MaxFailedRounds
MaxCurrentRound == 1    \* the door system is driven while current_round is below MaxCurrentRound

(***************************************************************************)
(* Program constants.                                                      *)
(***************************************************************************)
ATTACK == "ATTACK"
RETREAT == "RETREAT"
DEFAULT_VALUE == RETREAT
DefaultMaxLength == 10
Values == {ATTACK, RETREAT}

(***************************************************************************)
(* Sequence helpers.                                                       *)
(***************************************************************************)
Range(s) == {s[i] : i \in 1..Len(s)}

Min(S) == CHOOSE x \in S : \A y \in S : x <= y

RECURSIVE SortedSeq(_)
\* the elements of a finite set of integers in ascending order
SortedSeq(S) ==
    IF S = {} THEN <<>>
    ELSE LET x == Min(S) IN <<x>> \o SortedSeq(S \ {x})

RECURSIVE FilterSeq(_, _)
\* the elements of s that lie in the set S, in the order of s
FilterSeq(s, S) ==
    IF s = <<>> THEN <<>>
    ELSE IF Head(s) \in S THEN <<Head(s)>> \o FilterSeq(Tail(s), S)
         ELSE FilterSeq(Tail(s), S)

\* list.index(x): the first position of x in s
IndexOf(s, x) == Min({i \in 1..Len(s) : s[i] = x})

RECURSIVE InsertByLen(_, _)
\* p inserted into the length-sorted list s after every element that is not longer
InsertByLen(s, p) ==
    IF s = <<>> THEN <<p>>
    ELSE IF Len(Head(s)) <= Len(p) THEN <<Head(s)>> \o InsertByLen(Tail(s), p)
         ELSE <<p>> \o s

RECURSIVE SortByLen(_)
\* list.sort(key=len): a stable sort by length
SortByLen(s) ==
    IF s = <<>> THEN <<>>
    ELSE InsertByLen(SortByLen(SubSeq(s, 1, Len(s) - 1)), s[Len(s)])

(***************************************************************************)
(* PartialTopologyBFT: paths.                                              *)
(***************************************************************************)
\* self.graph.get(current, [])
Neighbors(g, current) == IF current \in DOMAIN g THEN g[current] ELSE {}

RECURSIVE find_all_paths_loop(_, _, _, _, _)
\* the while loop of find_all_paths: queue holds the paths still to expand
\* (the current node of an entry is the last node of its path)
find_all_paths_loop(g, target, max_length, queue, paths) ==
    IF queue = <<>> THEN paths
    ELSE LET path == Head(queue)
             current == path[Len(path)]
             rest == Tail(queue)
         IN IF current = target
               THEN find_all_paths_loop(g, target, max_length, rest, Append(paths, path))
            ELSE IF Len(path) >= max_length
               THEN find_all_paths_loop(g, target, max_length, rest, paths)
            ELSE LET nbs == SortedSeq({nb \in Neighbors(g, current) : nb \notin Range(path)})
                     more == [i \in 1..Len(nbs) |-> Append(path, nbs[i])]
                 IN find_all_paths_loop(g, target, max_length, rest \o more, paths)

find_all_paths(g, source, target, max_length) ==
    IF source \notin DOMAIN g \/ target \notin DOMAIN g THEN <<>>
    ELSE find_all_paths_loop(g, target, max_length, << <<source>> >>, <<>>)

\* tuple(sorted([a, b]))
Edge(a, b) == IF a <= b THEN <<a, b>> ELSE <<b, a>>

\* the undirected edges of a path
PathEdges(path) == {Edge(path[i], path[i + 1]) : i \in 1..(Len(path) - 1)}

are_paths_edge_disjoint(path1, path2) == PathEdges(path1) \cap PathEdges(path2) = {}

RECURSIVE find_disjoint_paths_ungreedy(_, _, _, _, _)
\* the selection loop without the test against used_edges
find_disjoint_paths_ungreedy(all_paths, i, k, disjoint_paths, used_edges) ==
    IF i > Len(all_paths) THEN disjoint_paths
    ELSE LET chosen == Append(disjoint_paths, all_paths[i])
         IN IF Len(chosen) >= k THEN chosen
            ELSE find_disjoint_paths_ungreedy(all_paths, i + 1, k, chosen, used_edges)

RECURSIVE find_disjoint_paths_loop(_, _, _, _, _)
\* the for loop of find_disjoint_paths over the sorted candidates, from index i
find_disjoint_paths_loop(all_paths, i, k, disjoint_paths, used_edges) ==
    IF i > Len(all_paths) THEN disjoint_paths
    ELSE LET path == all_paths[i]
             path_edges == PathEdges(path)
             take == path_edges \cap used_edges = {}
             chosen == IF take THEN Append(disjoint_paths, path) ELSE disjoint_paths
             used == IF take THEN used_edges \cup path_edges ELSE used_edges
         IN IF Len(chosen) >= k THEN chosen
            ELSE find_disjoint_paths_loop(all_paths, i + 1, k, chosen, used)

find_disjoint_paths(g, source, target, k) ==
    IF source = target THEN <<>>
    ELSE find_disjoint_paths_loop(
             SortByLen(find_all_paths(g, source, target, DefaultMaxLength)),
             1, k, <<>>, {})

(***************************************************************************)
(* PartialTopologyBFT: connectivity.                                       *)
(***************************************************************************)
RECURSIVE is_graph_connected_bfs(_, _, _, _)
\* the breadth-first loop of is_graph_connected; returns the visited set
is_graph_connected_bfs(g, excluded_nodes, queue, visited) ==
    IF queue = <<>> THEN visited
    ELSE LET current == Head(queue)
             fresh == SortedSeq({nb \in Neighbors(g, current) :
                                    nb \notin excluded_nodes /\ nb \notin visited})
         IN is_graph_connected_bfs(g, excluded_nodes, Tail(queue) \o fresh,
                                   visited \cup Range(fresh))

\* is_graph_connected; keys is the insertion order of self.graph
is_graph_connected(g, keys, excluded_nodes) ==
    IF keys = <<>> THEN FALSE
    ELSE LET left == FilterSeq(keys, Range(keys) \ excluded_nodes)
         IN IF left = <<>> THEN TRUE
            ELSE LET start_node == Head(left)
                     visited == is_graph_connected_bfs(g, excluded_nodes,
                                                       <<start_node>>, {start_node})
                 IN \A node \in Range(left) : node \in visited

\* "return k - 1" when a disconnecting set of k nodes is found
connectivity_of_cut(k) == k - 1

\* the value returned with one more than the node count less one
connectivity_without_cut_n(n) == n

\* "return len(nodes_list) - 1" when no set of fewer than n nodes disconnects
connectivity_without_cut(n) == n - 1

calculate_node_connectivity(g, keys) ==
    IF keys = <<>> THEN 0
    ELSE IF Len(keys) <= 1 THEN 0
    ELSE LET n == Len(keys)
             found == {k \in 1..(n - 1) :
                          \E nodes_to_remove \in SUBSET Range(keys) :
                              /\ Cardinality(nodes_to_remove) = k
                              /\ ~is_graph_connected(g, keys, nodes_to_remove)}
         IN IF found = {} THEN connectivity_without_cut(n)
            ELSE connectivity_of_cut(Min(found))

\* the two requirements exchanged
required_connectivity_swapped(m, use_signed_messages) ==
    IF use_signed_messages THEN 2 * m + 1 ELSE m + 1

\* a signed requirement of m - 1 in place of m + 1
required_connectivity_signed_low(m, use_signed_messages) ==
    IF use_signed_messages THEN m - 1 ELSE 2 * m + 1

required_connectivity(m, use_signed_messages) ==
    IF use_signed_messages THEN m + 1 ELSE 2 * m + 1

\* a gate that lets every graph pass
verify_connectivity_open(g, keys, m, use_signed_messages) == TRUE

verify_connectivity(g, keys, m, use_signed_messages) ==
    calculate_node_connectivity(g, keys) >= required_connectivity(m, use_signed_messages)

(***************************************************************************)
(* Node: send, receive, majority.                                          *)
(***************************************************************************)
\* Node.receive_message on one node's log: the entry is appended to the
\* round's list, which is created when the round has no list yet
receive_message(log, message) ==
    LET entry == <<message.value, message.path>>
        r == message.round
    IN IF r \in DOMAIN log THEN [log EXCEPT ![r] = Append(@, entry)]
       ELSE log @@ (r :> <<entry>>)

\* Network.deliver_message: logs are the logs of the node objects the registry holds
deliver_message(logs, target_node_id, message) ==
    IF target_node_id \in DOMAIN logs
    THEN [logs EXCEPT ![target_node_id] = receive_message(@, message)]
    ELSE logs

\* the substitution applied by every sender, loyal or not
emitted_value_by_all(sender, value, target_node, r) ==
    IF r > 0
    THEN (IF target_node % 2 = 0 THEN ATTACK ELSE RETREAT)
    ELSE value

\* the substitution applied by a traitor in round 0 as well
emitted_value_any_round(sender, value, target_node, r) ==
    IF is_traitor[sender]
    THEN (IF target_node % 2 = 0 THEN ATTACK ELSE RETREAT)
    ELSE value

\* the value a sender puts into a message: a traitor lies by the target's parity after round 0
\* a traitor that lies in round 0 and in no other round
emitted_value_lying_in_round_zero(sender, value, target_node, r) ==
    IF is_traitor[sender] /\ r = 0
    THEN (IF target_node % 2 = 0 THEN ATTACK ELSE RETREAT)
    ELSE value

emitted_value(sender, value, target_node, r) ==
    IF is_traitor[sender] /\ r > 0
    THEN (IF target_node % 2 = 0 THEN ATTACK ELSE RETREAT)
    ELSE value

\* a message that carries the given path without the sender
send_message_bare_path(logs, sender, value, target_node, r, path) ==
    deliver_message(logs, target_node,
        [value |-> emitted_value(sender, value, target_node, r),
         sender |-> sender,
         round |-> r,
         path |-> path])

\* Node.send_message: builds one message and hands it to the network
send_message(logs, sender, value, target_node, r, path) ==
    deliver_message(logs, target_node,
        [value |-> emitted_value(sender, value, target_node, r),
         sender |-> sender,
         round |-> r,
         path |-> Append(path, sender)])

\* the log of a round with no duplicate (value, path) pair, as a set
unique_messages(log, r) == IF r \in DOMAIN log THEN Range(log[r]) ELSE {}

\* a majority over every logged entry, the repeated ones included
get_majority_from_paths_counting_all(log, r) ==
    IF r \notin DOMAIN log THEN DEFAULT_VALUE
    ELSE LET attack_count == Cardinality({k \in 1..Len(log[r]) : log[r][k][1] = ATTACK})
             retreat_count == Cardinality({k \in 1..Len(log[r]) : log[r][k][1] = RETREAT})
         IN IF attack_count > retreat_count THEN ATTACK ELSE RETREAT

\* Node.get_majority_from_paths
get_majority_from_paths(log, r) ==
    IF r \notin DOMAIN log THEN DEFAULT_VALUE
    ELSE LET unique == unique_messages(log, r)
             attack_count == Cardinality({e \in unique : e[1] = ATTACK})
             retreat_count == Cardinality({e \in unique : e[1] = RETREAT})
         IN IF unique = {} THEN DEFAULT_VALUE
            ELSE IF attack_count > retreat_count THEN ATTACK ELSE RETREAT

(***************************************************************************)
(* PartialTopologyBFT: multipath relay and the rounds.                     *)
(***************************************************************************)
RECURSIVE send_along_path_forwarding(_, _, _, _, _)
\* a relay in which each hop passes on what the hop before it emitted
send_along_path_forwarding(logs, path, i, value, r) ==
    IF i > Len(path) THEN logs
    ELSE LET current_node == path[i - 1]
             next_node == path[i]
             both == current_node \in Range(node_ids) /\ next_node \in Range(node_ids)
             sent == IF both
                     THEN send_message(logs, current_node, value, next_node, r,
                                       SubSeq(path, 1, IndexOf(path, current_node)))
                     ELSE logs
             passed_on == IF both THEN emitted_value(current_node, value, next_node, r)
                          ELSE value
         IN send_along_path_forwarding(sent, path, i + 1, passed_on, r)

RECURSIVE send_along_path(_, _, _, _, _)
\* the inner loop of send_via_multipath: the hops of one path from position i
send_along_path(logs, path, i, value, r) ==
    IF i > Len(path) THEN logs
    ELSE LET current_node == path[i - 1]
             next_node == path[i]
             sent == IF current_node \in Range(node_ids) /\ next_node \in Range(node_ids)
                     THEN send_message(logs, current_node, value, next_node, r,
                                       SubSeq(path, 1, IndexOf(path, current_node)))
                     ELSE logs
         IN send_along_path(sent, path, i + 1, value, r)

RECURSIVE send_over_paths(_, _, _, _, _)
\* the outer loop of send_via_multipath over the selected paths, from index j
send_over_paths(logs, paths, j, value, r) ==
    IF j > Len(paths) THEN logs
    ELSE IF Len(paths[j]) < 2 THEN send_over_paths(logs, paths, j + 1, value, r)
    ELSE send_over_paths(send_along_path(logs, paths[j], 2, value, r),
                         paths, j + 1, value, r)

send_via_multipath(logs, source, target, value, r, k) ==
    IF source = target THEN logs
    ELSE send_over_paths(logs, find_disjoint_paths(graph, source, target, k), 1, value, r)

\* the logs of the node objects held by Network.nodes: a registered id names the
\* node object of this instance or the one of the second instance
registered_logs ==
    [id \in DOMAIN network_nodes |->
        IF network_nodes[id] = "self" THEN received_messages[id] ELSE other_messages[id]]

\* the logs of the nodes of one instance once the registry's node objects hold delivered
logs_after(instance, logs, delivered) ==
    IF DOMAIN logs = {} THEN logs
    ELSE [id \in DOMAIN logs |->
             IF id \in DOMAIN network_nodes /\ network_nodes[id] = instance
             THEN delivered[id]
             ELSE logs[id]]

(***************************************************************************)
(* PartialTopologyBFT: final voting and the consensus check.               *)
(***************************************************************************)
RECURSIVE CountIn(_, _)
\* list.count(v)
CountIn(s, v) ==
    IF s = <<>> THEN 0
    ELSE (IF Head(s)[1] = v THEN 1 ELSE 0) + CountIn(Tail(s), v)

RECURSIVE CountAllRounds(_, _, _)
\* the number of logged entries with value v over the rounds in rs
CountAllRounds(log, rs, v) ==
    IF rs = {} THEN 0
    ELSE LET r == CHOOSE x \in rs : TRUE
         IN CountIn(log[r], v) + CountAllRounds(log, rs \ {r}, v)

\* a vote that leaves a node with an empty log undecided
vote_of_or_none(log) ==
    LET attack_count == CountAllRounds(log, DOMAIN log, ATTACK)
        retreat_count == CountAllRounds(log, DOMAIN log, RETREAT)
    IN IF attack_count + retreat_count = 0 THEN "None"
       ELSE IF attack_count > retreat_count THEN ATTACK ELSE RETREAT

\* the decision final_voting assigns to one node from its log
vote_of(log) ==
    LET attack_count == CountAllRounds(log, DOMAIN log, ATTACK)
        retreat_count == CountAllRounds(log, DOMAIN log, RETREAT)
    IN IF attack_count + retreat_count = 0 THEN DEFAULT_VALUE
       ELSE IF attack_count > retreat_count THEN ATTACK ELSE RETREAT

\* final_voting: the decision of every registered node
final_voting(logs) == [node_id \in DOMAIN logs |-> vote_of(logs[node_id])]

\* the ids check_consensus keeps, with traitors and the commander not removed
loyal_nodes_unfiltered(decisions) == DOMAIN decisions

\* the ids check_consensus keeps in loyal_nodes
loyal_nodes(decisions) ==
    {nid \in DOMAIN decisions : ~is_traitor[nid] /\ nid # commander_id}

Returned(value) == [raised |-> "no", value |-> value]
Raised(error) == [raised |-> error, value |-> FALSE]

\* check_consensus; it raises AttributeError when the node at commander_id is a
\* loyal plain Node, which has no initial_value
check_consensus(decisions) ==
    LET loyal == loyal_nodes(decisions)
    IN IF loyal = {} THEN Returned(TRUE)
       ELSE LET first_decision == decisions[Min(loyal)]
                ic1_satisfied == \A nid \in loyal : decisions[nid] = first_decision
                commander_traitor == is_traitor[commander_id]
            IN IF ~commander_traitor /\ initial_value = "None" THEN Raised("AttributeError")
               ELSE LET ic2_satisfied ==
                            IF ~commander_traitor
                            THEN \A nid \in loyal : decisions[nid] = initial_value
                            ELSE TRUE
                    IN Returned(ic1_satisfied /\ (commander_traitor \/ ic2_satisfied))

(***************************************************************************)
(* Topologies the systems are built on.                                    *)
(***************************************************************************)
NodeSet(n) == 0..(n - 1)

\* every node adjacent to every other node
CompleteGraph(n) == [i \in NodeSet(n) |-> NodeSet(n) \ {i}]

\* node i adjacent to (i + 1) % n and (i - 1) % n
RingGraph(n) == [i \in NodeSet(n) |-> {(i + 1) % n, (i + n - 1) % n} \ {i}]

\* node 0 is the hub
StarGraph(n) == [i \in NodeSet(n) |-> IF i = 0 THEN NodeSet(n) \ {0} ELSE {0}]

\* the line 0 - 1 - ... - (n-1)
LineGraph(n) == [i \in NodeSet(n) |-> {i - 1, i + 1} \cap NodeSet(n)]

\* every node registered with an empty neighbour list
EmptyGraph(n) == [i \in NodeSet(n) |-> {}]

Topologies(n) == {CompleteGraph(n), RingGraph(n), StarGraph(n), LineGraph(n), EmptyGraph(n)}

\* the number of nodes of the line of Example 1 of test_examples
ExampleLineNodes == 5

\* the systems built: every topology on 2..MaxNodes nodes with any node as the
\* commander, and the line of Example 1 with commander 0
Systems ==
    UNION {{[n |-> n, g |-> g, commander |-> cmd] :
               g \in Topologies(n), cmd \in NodeSet(n)} : n \in 2..MaxNodes}
    \cup {[n |-> ExampleLineNodes, g |-> LineGraph(ExampleLineNodes), commander |-> 0]}

\* the undirected simple graph on 0..n-1 with edge set E (pairs <<i, j>>, i < j)
GraphOfEdges(n, E) == [i \in NodeSet(n) |-> {j \in NodeSet(n) : j # i /\ Edge(i, j) \in E}]

AllEdges(n) == {e \in NodeSet(n) \X NodeSet(n) : e[1] < e[2]}

\* every undirected simple graph on 0..n-1
SimpleGraphs(n) == {GraphOfEdges(n, E) : E \in SUBSET AllEdges(n)}

\* the ids 0..n-1 in ascending order
AscendingIds(n) == [i \in 1..n |-> i - 1]

NoCall == [variant |-> "none", m |-> 0, initial_value |-> "None", max_rounds |-> 0, k_paths |-> 0]
NoCheck == [called |-> FALSE]
NotCalled == [status |-> "not called"]
ReturnedNone == [status |-> "None"]
ReturnedDecisions(decisions) == [status |-> "decisions", decisions |-> decisions]
NoQuery == [op |-> "none"]
NoRun == [done |-> FALSE]

(***************************************************************************)
(* Specification Spec: a constructed system, one consensus run, the check. *)
(***************************************************************************)
\* the logs and the decisions of the nodes of an instance after its construction
\* no door system has been constructed
no_engine ==
    /\ network_f = 0
    /\ state = <<>>
    /\ security_level = "None"
    /\ current_round = 0
    /\ failed_rounds_count = 0
    /\ failsafe_active = FALSE
    /\ current_door_state = "None"
    /\ pre_prepare_messages = <<>>
    /\ prepare_messages = <<>>
    /\ commit_messages = <<>>
    /\ result = "None"

constructed_messages(n) == [i \in NodeSet(n) |-> <<>>]

constructed_decision(n, cmd, v) == [i \in NodeSet(n) |-> IF i = cmd THEN v ELSE "None"]

\* The instance after set_commander(cmd, ..., v) and add_node(i, ..., i \in T) for
\* every other node, registered in ascending id order (as test_examples does).
constructed(sys, T, v) ==
    LET n == sys.n
        g == sys.g
        cmd == sys.commander
    IN
        /\ node_ids = AscendingIds(n)
        /\ graph = g
        /\ is_traitor = [i \in NodeSet(n) |-> i \in T]
        /\ commander_id = cmd
        /\ initial_value = v
        /\ received_messages = constructed_messages(n)
        /\ decision = constructed_decision(n, cmd, v)
        /\ pc = "idle"
        /\ call = NoCall
        /\ round_num = 0
        /\ source_idx = 0
        /\ target_idx = 0
        /\ source_value = "None"
        /\ ret = NotCalled
        /\ checked = NoCheck
        /\ query = NoQuery
        /\ commanders = {cmd}
        /\ first_run = NoRun
        /\ no_engine

\* One instance has been constructed, and it is the last one to have registered
\* its nodes with the network.
Init ==
    \E sys \in Systems :
    \E T \in SUBSET (NodeSet(sys.n) \ {sys.commander}) :
    \E v \in Values :
        /\ constructed(sys, T, v)
        /\ network_nodes = [i \in NodeSet(sys.n) |-> "self"]
        /\ other_messages = <<>>
        /\ other_decision = <<>>

\* f with the value at key x set to v, x being added to the domain when new
Assign(f, x, v) == [y \in DOMAIN f \cup {x} |-> IF y = x THEN v ELSE f[y]]

\* what add_node and set_commander share: nodes[node_id] becomes a fresh node
\* object (empty log), it is registered with the network, and graph[node_id]
\* becomes the neighbour set; a new key goes to the end of the dictionaries
register_node(node_id, neighbors, traitor) ==
    /\ node_ids' = IF node_id \in Range(node_ids) THEN node_ids
                   ELSE Append(node_ids, node_id)
    /\ graph' = Assign(graph, node_id, neighbors)
    /\ is_traitor' = Assign(is_traitor, node_id, traitor)
    /\ received_messages' = Assign(received_messages, node_id, <<>>)
    /\ network_nodes' = Assign(network_nodes, node_id, "self")

\* the state change of add_node(node_id, neighbors, is_traitor): the node is a
\* plain Node (no decision, no initial_value)
add_node_effect(node_id, neighbors, traitor) ==
    /\ register_node(node_id, neighbors, traitor)
    /\ decision' = Assign(decision, node_id, "None")
    /\ initial_value' = IF node_id = commander_id THEN "None" ELSE initial_value
    /\ commanders' = commanders \ {node_id}
    /\ UNCHANGED commander_id

\* the state change of set_commander(node_id, neighbors, initial_value): the
\* node is a Commander, never a traitor, and commander_id names it
set_commander_effect(node_id, neighbors, value) ==
    /\ register_node(node_id, neighbors, FALSE)
    /\ decision' = Assign(decision, node_id, value)
    /\ initial_value' = value
    /\ commanders' = commanders \cup {node_id}
    /\ commander_id' = node_id

\* add_node(node_id, neighbors, is_traitor) between the construction and a run
add_node(node_id, neighbors, traitor) ==
    /\ pc = "idle"
    /\ checked = NoCheck
    /\ add_node_effect(node_id, neighbors, traitor)
    /\ checked' = NoCheck
    /\ query' = NoQuery
    /\ UNCHANGED <<pc, call, round_num, source_idx, target_idx, source_value, ret>>
    /\ UNCHANGED <<other_messages, other_decision, first_run, engine_vars>>

\* the start of run_oral_consensus / run_signed_consensus: the connectivity gate
run_consensus(signed, m, value) ==
    /\ pc = "idle"
    /\ checked = NoCheck
    /\ IF ~verify_connectivity(graph, node_ids, m, signed)
       THEN /\ call' = [variant |-> IF signed THEN "signed" ELSE "oral",
                        m |-> m,
                        initial_value |-> value,
                        max_rounds |-> 0,
                        k_paths |-> 0]
            /\ ret' = ReturnedNone
            /\ pc' = "returned"
            /\ UNCHANGED <<round_num, source_idx, target_idx, source_value>>
       ELSE /\ call' = [variant |-> IF signed THEN "signed" ELSE "oral",
                        m |-> m,
                        initial_value |-> value,
                        max_rounds |-> m + 1,
                        k_paths |-> IF signed THEN m + 1 ELSE 2 * m + 1]
            /\ round_num' = 0
            /\ source_idx' = 0
            /\ target_idx' = 1
            /\ source_value' = value
            /\ pc' = "rounds"
            /\ UNCHANGED ret
    /\ checked' = NoCheck
    /\ query' = NoQuery
    /\ UNCHANGED <<node_ids, graph, is_traitor, commander_id, initial_value,
                   received_messages, decision>>
    /\ UNCHANGED <<commanders, network_nodes, other_messages, other_decision, first_run, engine_vars>>

run_oral_consensus(m, value) == run_consensus(FALSE, m, value)

run_signed_consensus(m, value) == run_consensus(TRUE, m, value)

\* a commander that sends to the node registered first and to no other
commander_send_to_first_only ==
    /\ pc = "rounds"
    /\ round_num = 0
    /\ round_num < call.max_rounds
    /\ target_idx \in 1..Len(node_ids)
    /\ LET target == node_ids[target_idx]
           delivered == IF target # commander_id /\ target_idx = 1
                        THEN send_via_multipath(registered_logs, commander_id, target,
                                                call.initial_value, round_num, call.k_paths)
                        ELSE registered_logs
       IN /\ received_messages' = logs_after("self", received_messages, delivered)
          /\ other_messages' = logs_after("other", other_messages, delivered)
    /\ target_idx' = target_idx + 1
    /\ UNCHANGED <<node_ids, graph, is_traitor, commander_id, initial_value, decision,
                   pc, call, round_num, source_idx, source_value, ret, checked, query>>
    /\ UNCHANGED <<commanders, network_nodes, other_decision, first_run, engine_vars>>

\* round 0, one iteration of "for target in self.nodes": the commander sends
\* the initial value to the target over k_paths paths
commander_send ==
    /\ pc = "rounds"
    /\ round_num = 0
    /\ round_num < call.max_rounds
    /\ target_idx \in 1..Len(node_ids)
    /\ LET target == node_ids[target_idx]
           delivered == IF target # commander_id
                        THEN send_via_multipath(registered_logs, commander_id, target,
                                                call.initial_value, round_num, call.k_paths)
                        ELSE registered_logs
       IN /\ received_messages' = logs_after("self", received_messages, delivered)
          /\ other_messages' = logs_after("other", other_messages, delivered)
    /\ target_idx' = target_idx + 1
    /\ UNCHANGED <<node_ids, graph, is_traitor, commander_id, initial_value, decision,
                   pc, call, round_num, source_idx, source_value, ret, checked, query>>
    /\ UNCHANGED <<commanders, network_nodes, other_decision, first_run, engine_vars>>

\* a head of the source loop that takes the majority of the round under way
source_begin_current_round ==
    /\ pc = "rounds"
    /\ round_num > 0
    /\ round_num < call.max_rounds
    /\ source_idx \in 1..Len(node_ids)
    /\ target_idx = 0
    /\ LET source == node_ids[source_idx]
           skip == \/ source = commander_id
                   \/ /\ call.variant = "signed"
                      /\ (round_num - 1) \notin DOMAIN received_messages[source]
       IN IF skip
          THEN /\ source_idx' = source_idx + 1
               /\ UNCHANGED <<target_idx, source_value>>
          ELSE /\ source_value' = get_majority_from_paths(received_messages[source],
                                                          round_num)
               /\ target_idx' = 1
               /\ UNCHANGED source_idx
    /\ UNCHANGED <<node_ids, graph, is_traitor, commander_id, initial_value,
                   received_messages, decision, pc, call, round_num, ret, checked, query>>
    /\ UNCHANGED <<commanders, network_nodes, other_messages, other_decision, first_run, engine_vars>>

\* a head of the source loop that lets the commander send like any other node
source_begin_with_commander ==
    /\ pc = "rounds"
    /\ round_num > 0
    /\ round_num < call.max_rounds
    /\ source_idx \in 1..Len(node_ids)
    /\ target_idx = 0
    /\ LET source == node_ids[source_idx]
           skip == /\ call.variant = "signed"
                   /\ (round_num - 1) \notin DOMAIN received_messages[source]
       IN IF skip
          THEN /\ source_idx' = source_idx + 1
               /\ UNCHANGED <<target_idx, source_value>>
          ELSE /\ source_value' = get_majority_from_paths(received_messages[source],
                                                          round_num - 1)
               /\ target_idx' = 1
               /\ UNCHANGED source_idx
    /\ UNCHANGED <<node_ids, graph, is_traitor, commander_id, initial_value,
                   received_messages, decision, pc, call, round_num, ret, checked, query>>
    /\ UNCHANGED <<commanders, network_nodes, other_messages, other_decision, first_run, engine_vars>>

\* rounds 1..m, the head of one iteration of "for source in self.nodes": the
\* commander is skipped, and so is, in the signed variant, a source with no entry
\* for the previous round; any other source fixes the value it will send
source_begin ==
    /\ pc = "rounds"
    /\ round_num > 0
    /\ round_num < call.max_rounds
    /\ source_idx \in 1..Len(node_ids)
    /\ target_idx = 0
    /\ LET source == node_ids[source_idx]
           skip == \/ source = commander_id
                   \/ /\ call.variant = "signed"
                      /\ (round_num - 1) \notin DOMAIN received_messages[source]
       IN IF skip
          THEN /\ source_idx' = source_idx + 1
               /\ UNCHANGED <<target_idx, source_value>>
          ELSE /\ source_value' = get_majority_from_paths(received_messages[source],
                                                          round_num - 1)
               /\ target_idx' = 1
               /\ UNCHANGED source_idx
    /\ UNCHANGED <<node_ids, graph, is_traitor, commander_id, initial_value,
                   received_messages, decision, pc, call, round_num, ret, checked, query>>
    /\ UNCHANGED <<commanders, network_nodes, other_messages, other_decision, first_run, engine_vars>>

\* rounds 1..m, one iteration of "for target in self.nodes" of the current source
source_send ==
    /\ pc = "rounds"
    /\ round_num > 0
    /\ round_num < call.max_rounds
    /\ source_idx \in 1..Len(node_ids)
    /\ target_idx >= 1
    /\ IF target_idx <= Len(node_ids)
       THEN /\ LET source == node_ids[source_idx]
                   target == node_ids[target_idx]
                   delivered == IF target # source
                                THEN send_via_multipath(registered_logs, source, target,
                                                        source_value, round_num, call.k_paths)
                                ELSE registered_logs
               IN /\ received_messages' = logs_after("self", received_messages, delivered)
                  /\ other_messages' = logs_after("other", other_messages, delivered)
            /\ target_idx' = target_idx + 1
            /\ UNCHANGED source_idx
       ELSE /\ source_idx' = source_idx + 1
            /\ target_idx' = 0
            /\ UNCHANGED <<received_messages, other_messages>>
    /\ UNCHANGED <<node_ids, graph, is_traitor, commander_id, initial_value, decision,
                   pc, call, round_num, source_value, ret, checked, query>>
    /\ UNCHANGED <<commanders, network_nodes, other_decision, first_run, engine_vars>>

\* an end of round that clears the traitor flag of every node
end_round_pardoning ==
    /\ pc = "rounds"
    /\ round_num < call.max_rounds
    /\ \/ round_num = 0 /\ target_idx > Len(node_ids)
       \/ round_num > 0 /\ source_idx > Len(node_ids)
    /\ round_num' = round_num + 1
    /\ source_idx' = 1
    /\ target_idx' = 0
    /\ is_traitor' = [i \in DOMAIN is_traitor |-> FALSE]
    /\ UNCHANGED <<node_ids, graph, commander_id, initial_value,
                   received_messages, decision, pc, call, source_value, ret, checked, query>>
    /\ UNCHANGED <<commanders, network_nodes, other_messages, other_decision, first_run, engine_vars>>

\* the end of one iteration of "for round_num in range(max_rounds)"
\* (print_round_state changes nothing)
end_round ==
    /\ pc = "rounds"
    /\ round_num < call.max_rounds
    /\ \/ round_num = 0 /\ target_idx > Len(node_ids)
       \/ round_num > 0 /\ source_idx > Len(node_ids)
    /\ round_num' = round_num + 1
    /\ source_idx' = 1
    /\ target_idx' = 0
    /\ UNCHANGED <<node_ids, graph, is_traitor, commander_id, initial_value,
                   received_messages, decision, pc, call, source_value, ret, checked, query>>
    /\ UNCHANGED <<commanders, network_nodes, other_messages, other_decision, first_run, engine_vars>>

\* "return self.final_voting()" once the round loop is over
final_voting_step ==
    /\ pc = "rounds"
    /\ round_num = call.max_rounds
    /\ decision' = final_voting(received_messages)
    /\ ret' = ReturnedDecisions(decision')
    /\ pc' = "returned"
    /\ UNCHANGED <<node_ids, graph, is_traitor, commander_id, initial_value,
                   received_messages, call, round_num, source_idx, target_idx,
                   source_value, checked, query>>
    /\ UNCHANGED <<commanders, network_nodes, other_messages, other_decision, first_run, engine_vars>>

\* a final voting that empties the logs it has counted
final_voting_call_clearing ==
    /\ pc = "returned"
    /\ ret.status = "decisions"
    /\ checked = NoCheck
    /\ query = NoQuery
    /\ received_messages' = constructed_messages(Len(node_ids))
    /\ decision' = final_voting(received_messages)
    /\ query' = [op |-> "final_voting", result |-> final_voting(received_messages)]
    /\ UNCHANGED <<node_ids, graph, is_traitor, commander_id, initial_value,
                   pc, call, round_num, source_idx, target_idx, source_value, ret, checked>>
    /\ UNCHANGED <<commanders, network_nodes, other_messages, other_decision, first_run, engine_vars>>

\* final_voting() called once more on a system whose run has returned its
\* decisions: every node's decision is assigned again and the map is returned
final_voting_call ==
    /\ pc = "returned"
    /\ ret.status = "decisions"
    /\ checked = NoCheck
    /\ query = NoQuery
    /\ decision' = final_voting(received_messages)
    /\ query' = [op |-> "final_voting", result |-> final_voting(received_messages)]
    /\ UNCHANGED <<node_ids, graph, is_traitor, commander_id, initial_value,
                   received_messages, pc, call, round_num, source_idx, target_idx,
                   source_value, ret, checked>>
    /\ UNCHANGED <<commanders, network_nodes, other_messages, other_decision, first_run, engine_vars>>

\* check_consensus(decisions): on the decisions a run returned, as test_examples
\* calls it, or before any run on a decision map the caller supplies.  The call
\* reads the system and changes nothing, so what can follow it is what can follow
\* the state before it: a behaviour is explored up to its first check.
check_consensus_call(decisions) ==
    /\ checked = NoCheck
    /\ \/ pc = "returned" /\ ret.status = "decisions" /\ decisions = ret.decisions
       \/ pc = "idle"
    /\ checked' = [called |-> TRUE, decisions |-> decisions,
                   result |-> check_consensus(decisions)]
    /\ UNCHANGED <<node_ids, graph, is_traitor, commander_id, initial_value,
                   received_messages, decision, pc, call, round_num, source_idx,
                   target_idx, source_value, ret, query>>
    /\ UNCHANGED <<commanders, network_nodes, other_messages, other_decision, first_run, engine_vars>>

Next ==
    \/ \E node_id \in Range(node_ids), traitor \in BOOLEAN :
           add_node(node_id, graph[node_id], traitor)
    \/ \E m \in 0..MaxM, value \in Values : run_oral_consensus(m, value)
    \/ \E m \in 0..MaxM, value \in Values : run_signed_consensus(m, value)
    \/ commander_send
    \/ source_begin
    \/ source_send
    \/ end_round
    \/ final_voting_step
    \/ final_voting_call
    \/ \E decisions \in [Range(node_ids) -> Values] : check_consensus_call(decisions)

Spec == Init /\ [][Next]_vars

\* the position of the caller in a run
run_position == <<pc, round_num, source_idx, target_idx>>

\* the caller of a run moves on to its next statement: every statement of the
\* round loops and the final voting changes the position, and nothing else can
\* happen while a run is in progress
run_advances ==
    /\ pc = "rounds"
    /\ \E p \in {"rounds", "returned"}, r \in 0..call.max_rounds,
          si \in 0..(Len(node_ids) + 1), ti \in 0..(Len(node_ids) + 1) :
           /\ pc' = p
           /\ round_num' = r
           /\ source_idx' = si
           /\ target_idx' = ti
           /\ <<p, r, si, ti>> # run_position

\* Execution is single-threaded and synchronous: once run_oral_consensus or
\* run_signed_consensus has been called, its next statement is executed.
FairSpec == Spec /\ WF_run_position(run_advances)

(***************************************************************************)
(* Specification SpecNetwork: two instances constructed from the same      *)
(* arguments (graph, traitors, commander, initial value), hence with the   *)
(* same node ids, and the same run made on one and then on the other.      *)
(* Network.nodes is a class attribute: it holds, for every id, the node    *)
(* object registered last, whichever instance it belongs to.  The run      *)
(* actions act on the instance called self.                                *)
(***************************************************************************)
\* The second instance is constructed before the first, after it, or not yet.
InitNetwork ==
    \E sys \in Systems :
    \E T \in SUBSET (NodeSet(sys.n) \ {sys.commander}) :
    \E v \in Values :
    \E second \in {"before", "after", "not yet"} :
        /\ constructed(sys, T, v)
        /\ network_nodes = [i \in NodeSet(sys.n) |->
                                IF second = "after" THEN "other" ELSE "self"]
        /\ other_messages = IF second = "not yet" THEN <<>>
                            ELSE constructed_messages(sys.n)
        /\ other_decision = IF second = "not yet" THEN <<>>
                            ELSE constructed_decision(sys.n, sys.commander, v)

\* The caller turns to the second instance once the run on the first has
\* returned; the second instance is constructed now if it was not before.  The
\* two instances exchange their roles: the second becomes self.
second_instance ==
    /\ pc = "returned"
    /\ ~first_run.done
    /\ first_run' = [done |-> TRUE, call |-> call, ret |-> ret]
    /\ UNCHANGED engine_vars
    /\ other_messages' = received_messages
    /\ other_decision' = decision
    /\ IF DOMAIN other_messages = {}
       THEN /\ received_messages' = constructed_messages(Len(node_ids))
            /\ decision' = constructed_decision(Len(node_ids), commander_id, initial_value)
            /\ network_nodes' = [i \in DOMAIN network_nodes |-> "self"]
       ELSE /\ received_messages' = other_messages
            /\ decision' = other_decision
            /\ network_nodes' = [i \in DOMAIN network_nodes |->
                                     IF network_nodes[i] = "self" THEN "other" ELSE "self"]
    /\ pc' = "idle"
    /\ call' = NoCall
    /\ ret' = NotCalled
    /\ round_num' = 0
    /\ source_idx' = 0
    /\ target_idx' = 0
    /\ source_value' = "None"
    /\ UNCHANGED <<node_ids, graph, is_traitor, commander_id, initial_value,
                   checked, query, commanders>>

\* the run on the second instance is called with the arguments of the first run
same_call_as_first_run ==
    first_run.done =>
        /\ call'.variant = first_run.call.variant
        /\ call'.m = first_run.call.m
        /\ call'.initial_value = first_run.call.initial_value

NextNetwork ==
    \/ \E m \in 0..MaxM, value \in Values :
           run_oral_consensus(m, value) /\ same_call_as_first_run
    \/ \E m \in 0..MaxM, value \in Values :
           run_signed_consensus(m, value) /\ same_call_as_first_run
    \/ commander_send
    \/ source_begin
    \/ source_send
    \/ end_round
    \/ final_voting_step
    \/ second_instance

SpecNetwork == InitNetwork /\ [][NextNetwork]_vars

(***************************************************************************)
(* Specification SpecOrder: a system is built and run; then the same       *)
(* nodes, with the same neighbours, traitors and commander, are registered *)
(* in another order in a fresh system and the same call is made on it.     *)
(* self.nodes is a dict, so the loops of a run follow the registration     *)
(* order.  first_run keeps the call and the result of the first system.    *)
(***************************************************************************)
\* the orders in which add_node / set_commander can register nodes 0..n-1
Orders(n) == {order \in [1..n -> NodeSet(n)] : Range(order) = NodeSet(n)}

\* a fresh system whose add_node / set_commander calls come in the given order
registered_in_order(order) ==
    /\ pc = "returned"
    /\ ~first_run.done
    /\ first_run' = [done |-> TRUE, call |-> call, ret |-> ret]
    /\ node_ids' = order
    /\ received_messages' = constructed_messages(Len(node_ids))
    /\ decision' = constructed_decision(Len(node_ids), commander_id, initial_value)
    /\ pc' = "idle"
    /\ call' = NoCall
    /\ ret' = NotCalled
    /\ round_num' = 0
    /\ source_idx' = 0
    /\ target_idx' = 0
    /\ source_value' = "None"
    /\ UNCHANGED <<graph, is_traitor, commander_id, initial_value, checked, query,
                   commanders, network_nodes, other_messages, other_decision>>
    /\ UNCHANGED engine_vars

\* the systems of 2..MaxNodes nodes, constructed as in Init; set_commander is
\* given ATTACK, and the value a run spreads is the argument of the run
InitOrder ==
    \E sys \in {system \in Systems : system.n <= MaxNodes} :
    \E T \in SUBSET (NodeSet(sys.n) \ {sys.commander}) :
        /\ constructed(sys, T, ATTACK)
        /\ network_nodes = [i \in NodeSet(sys.n) |-> "self"]
        /\ other_messages = <<>>
        /\ other_decision = <<>>

NextOrder ==
    \/ \E m \in 0..MaxM, value \in Values :
           run_oral_consensus(m, value) /\ same_call_as_first_run
    \/ \E m \in 0..MaxM, value \in Values :
           run_signed_consensus(m, value) /\ same_call_as_first_run
    \/ commander_send
    \/ source_begin
    \/ source_send
    \/ end_round
    \/ final_voting_step
    \/ \E order \in Orders(Len(node_ids)) : registered_in_order(order)

SpecOrder == InitOrder /\ [][NextOrder]_vars

(***************************************************************************)
(* Specification SpecBuild: one operation called on a constructed system   *)
(* with arguments that may name a node id nobody registered.  query        *)
(* records the call, the ids registered before it and how it ended.        *)
(***************************************************************************)
\* the variables of a run and of a second instance, which these calls leave alone
run_vars == <<pc, call, round_num, source_idx, target_idx, source_value, ret, checked,
              other_decision, first_run, engine_vars>>

\* the least id that is not registered
UnregisteredId == Len(node_ids)

\* set_commander(node_id, neighbors, initial_value) on a system that has a commander
set_commander_call(node_id, neighbors, value) ==
    /\ query = NoQuery
    /\ set_commander_effect(node_id, neighbors, value)
    /\ query' = [op |-> "set_commander",
                 node_id |-> node_id,
                 references |-> {},
                 registered |-> Range(node_ids),
                 commander_before |-> commander_id,
                 result |-> Returned("None")]
    /\ UNCHANGED run_vars
    /\ UNCHANGED other_messages

\* add_node(node_id, neighbors, is_traitor)
add_node_call(node_id, neighbors, traitor) ==
    /\ query = NoQuery
    /\ add_node_effect(node_id, neighbors, traitor)
    /\ query' = [op |-> "add_node",
                 node_id |-> node_id,
                 references |-> neighbors,
                 registered |-> Range(node_ids),
                 commander_before |-> commander_id,
                 result |-> Returned("None")]
    /\ UNCHANGED run_vars
    /\ UNCHANGED other_messages

\* Network.deliver_message(target_node_id, message) with a round-0 message of the commander
deliver_message_call(target_node_id, value) ==
    /\ query = NoQuery
    /\ LET message == [value |-> value, sender |-> commander_id, round |-> 0,
                       path |-> <<commander_id>>]
           delivered == deliver_message(registered_logs, target_node_id, message)
       IN /\ received_messages' = logs_after("self", received_messages, delivered)
          /\ other_messages' = logs_after("other", other_messages, delivered)
    /\ query' = [op |-> "deliver_message",
                 node_id |-> target_node_id,
                 references |-> {target_node_id},
                 registered |-> DOMAIN network_nodes,
                 commander_before |-> commander_id,
                 result |-> Returned("None")]
    /\ UNCHANGED <<node_ids, graph, is_traitor, commander_id, initial_value, decision,
                   commanders, network_nodes>>
    /\ UNCHANGED run_vars

\* send_via_multipath(source, target, value, round_num, k) with round_num = 0
send_via_multipath_call(source, target, value, k) ==
    /\ query = NoQuery
    /\ LET delivered == send_via_multipath(registered_logs, source, target, value, 0, k)
       IN /\ received_messages' = logs_after("self", received_messages, delivered)
          /\ other_messages' = logs_after("other", other_messages, delivered)
    /\ query' = [op |-> "send_via_multipath",
                 node_id |-> source,
                 references |-> {source, target},
                 registered |-> Range(node_ids),
                 commander_before |-> commander_id,
                 result |-> Returned("None")]
    /\ UNCHANGED <<node_ids, graph, is_traitor, commander_id, initial_value, decision,
                   commanders, network_nodes>>
    /\ UNCHANGED run_vars

\* find_all_paths(source, target)
find_all_paths_call(source, target) ==
    /\ query = NoQuery
    /\ query' = [op |-> "find_all_paths",
                 node_id |-> source,
                 references |-> {source, target},
                 registered |-> Range(node_ids),
                 commander_before |-> commander_id,
                 result |-> Returned(find_all_paths(graph, source, target, DefaultMaxLength))]
    /\ UNCHANGED <<node_ids, graph, is_traitor, commander_id, initial_value, decision,
                   received_messages, other_messages, commanders, network_nodes>>
    /\ UNCHANGED run_vars

NextBuild ==
    \/ \E node_id \in Range(node_ids), value \in Values :
           set_commander_call(node_id, graph[node_id], value)
    \/ \E neighbors \in SUBSET (0..(UnregisteredId + 1)), traitor \in BOOLEAN :
           /\ UnregisteredId \notin neighbors
           /\ add_node_call(UnregisteredId, neighbors, traitor)
    \/ \E target_node_id \in 0..UnregisteredId, value \in Values :
           deliver_message_call(target_node_id, value)
    \/ \E source \in 0..UnregisteredId, target \in 0..UnregisteredId,
          value \in Values, k \in 1..MaxK :
           send_via_multipath_call(source, target, value, k)
    \/ \E source \in 0..UnregisteredId, target \in 0..UnregisteredId :
           find_all_paths_call(source, target)

SpecBuild == Init /\ [][NextBuild]_vars

(***************************************************************************)
(* Specification SpecNode: the operations of class Node called directly on *)
(* the nodes of a constructed two-node system.  receive_message calls      *)
(* build the logs; query records one call of send_message or               *)
(* get_majority_from_paths with the logs it found.                         *)
(***************************************************************************)
InitNode ==
    \E T \in SUBSET {1} :
        /\ constructed([n |-> 2, g |-> CompleteGraph(2), commander |-> 0], T, ATTACK)
        /\ network_nodes = [i \in NodeSet(2) |-> "self"]
        /\ other_messages = <<>>
        /\ other_decision = <<>>

\* the number of entries of a log
LogLen(log) ==
    CountAllRounds(log, DOMAIN log, ATTACK) + CountAllRounds(log, DOMAIN log, RETREAT)

\* the paths of the messages handed to receive_message
ReceivedPaths == {<<0>>, <<0, 1>>}

\* the variables no operation of a node changes
node_fixed == <<node_ids, graph, is_traitor, commander_id, initial_value, decision,
                commanders, network_nodes, other_messages>>

\* nodes[node_id].receive_message(message)
receive_message_call(node_id, message) ==
    /\ query = NoQuery
    /\ LogLen(received_messages[0]) + LogLen(received_messages[1]) < MaxLogLen
    /\ received_messages' =
           [received_messages EXCEPT ![node_id] = receive_message(@, message)]
    /\ UNCHANGED query
    /\ UNCHANGED node_fixed
    /\ UNCHANGED run_vars

\* nodes[sender].send_message(value, target_node, round_num, path)
send_message_call(sender, value, target_node, r, path) ==
    /\ query = NoQuery
    /\ LET delivered == send_message(registered_logs, sender, value, target_node, r, path)
       IN received_messages' = logs_after("self", received_messages, delivered)
    /\ query' = [op |-> "send_message",
                 sender |-> sender,
                 value |-> value,
                 target_node |-> target_node,
                 round_num |-> r,
                 path |-> path,
                 logs |-> received_messages]
    /\ UNCHANGED node_fixed
    /\ UNCHANGED run_vars

\* nodes[node_id].get_majority_from_paths(round_num)
get_majority_from_paths_call(node_id, r) ==
    /\ query = NoQuery
    /\ query' = [op |-> "get_majority_from_paths",
                 node_id |-> node_id,
                 round_num |-> r,
                 logs |-> received_messages,
                 result |-> get_majority_from_paths(received_messages[node_id], r)]
    /\ UNCHANGED received_messages
    /\ UNCHANGED node_fixed
    /\ UNCHANGED run_vars

NextNode ==
    \/ \E node_id \in Range(node_ids), value \in Values, r \in 0..MaxM,
          path \in ReceivedPaths :
           receive_message_call(node_id, [value |-> value, sender |-> path[Len(path)],
                                          round |-> r, path |-> path])
    \/ \E sender \in Range(node_ids), value \in Values,
          target_node \in 0..UnregisteredId, r \in 0..MaxM, path \in {<<>>, <<0>>} :
           send_message_call(sender, value, target_node, r, path)
    \/ \E node_id \in Range(node_ids), r \in 0..(MaxM + 1) :
           get_majority_from_paths_call(node_id, r)

SpecNode == InitNode /\ [][NextNode]_vars

(***************************************************************************)
(* Specification SpecTester: class BFTTester of src/model/old/toptester.py *)
(* (direct neighbour-to-neighbour messages, no paths).  The variables are  *)
(* those of the tester: graph is self.topology, a log maps a round to the  *)
(* list of the values received in it, and a Byzantine sender draws the     *)
(* value it sends with random.choice.  sent_messages is only written and   *)
(* is left out.                                                            *)
(***************************************************************************)
\* Decision.UNDECIDED, the decision of a node that has not voted
UNDECIDED == "UNDECIDED"

\* Node.receive_message: the value is appended to the list of the round
tester_receive_message(log, r, value) ==
    IF r \in DOMAIN log THEN [log EXCEPT ![r] = Append(@, value)]
    ELSE log @@ (r :> <<value>>)

RECURSIVE CountValue(_, _, _)
\* the number of values equal to v in the lists of the rounds in rs
CountValue(log, rs, v) ==
    IF rs = {} THEN 0
    ELSE LET r == CHOOSE x \in rs : TRUE
         IN Cardinality({k \in 1..Len(log[r]) : log[r][k] = v})
            + CountValue(log, rs \ {r}, v)

RECURSIVE CountAll(_, _)
\* the number of values in the lists of the rounds in rs
CountAll(log, rs) ==
    IF rs = {} THEN 0
    ELSE LET r == CHOOSE x \in rs : TRUE
         IN Len(log[r]) + CountAll(log, rs \ {r})

\* a relay that sends the default whatever was received
tester_value_to_send_default(log, r) == RETREAT

\* run_round: the value a node relays in round r >= 1
tester_value_to_send(log, r) ==
    IF r = 1
    THEN (IF 0 \in DOMAIN log /\ log[0] # <<>> THEN log[0][1] ELSE RETREAT)
    ELSE LET before == DOMAIN log \cap 0..(r - 1)
             attack_count == CountValue(log, before, ATTACK)
         IN IF 2 * attack_count > CountAll(log, before) THEN ATTACK ELSE RETREAT

\* Node.vote
tester_vote(log) ==
    LET attack_count == CountValue(log, DOMAIN log, ATTACK)
        retreat_count == CountValue(log, DOMAIN log, RETREAT)
    IN IF CountAll(log, DOMAIN log) = 0 THEN RETREAT
       ELSE IF attack_count > retreat_count THEN ATTACK
       ELSE RETREAT

\* BFTTester.check_consensus: the same text as PartialTopologyBFT.check_consensus
tester_check_consensus(decisions) == check_consensus(decisions)

\* The tester after add_node for every node (the nodes of T as traitors),
\* add_connection for every edge and set_commander(cmd, v), as test_scenarios
\* builds it.
InitTester ==
    \E n \in 2..MaxNodes :
    \E g \in Topologies(n) :
    \E cmd \in NodeSet(n) :
    \E T \in SUBSET (NodeSet(n) \ {cmd}) :
    \E v \in Values :
        /\ node_ids = AscendingIds(n)
        /\ graph = g
        /\ is_traitor = [i \in NodeSet(n) |-> i \in T]
        /\ commander_id = cmd
        /\ commanders = {cmd}
        /\ initial_value = v
        /\ received_messages = [i \in NodeSet(n) |-> <<>>]
        /\ decision = [i \in NodeSet(n) |-> IF i = cmd THEN v ELSE UNDECIDED]
        /\ pc = "idle"
        /\ call = NoCall
        /\ round_num = 0
        /\ source_idx = 0
        /\ target_idx = 0
        /\ source_value = "None"
        /\ ret = NotCalled
        /\ checked = NoCheck
        /\ query = NoQuery
        /\ first_run = NoRun
        /\ no_engine
        /\ network_nodes = <<>>
        /\ other_messages = <<>>
        /\ other_decision = <<>>

\* the variables the tester does not have or does not change during a run
tester_fixed == <<node_ids, graph, commander_id, commanders, query, source_value,
                  network_nodes, other_messages, other_decision, first_run, engine_vars>>

\* run_consensus(max_rounds, initial_value) up to the round loop:
\* set_commander(self.commander_id, initial_value) replaces the commander's node
tester_run_consensus(max_rounds, value) ==
    /\ pc = "idle"
    /\ call' = [variant |-> "tester", m |-> 0, initial_value |-> value,
                max_rounds |-> max_rounds, k_paths |-> 0]
    /\ initial_value' = value
    /\ is_traitor' = [is_traitor EXCEPT ![commander_id] = FALSE]
    /\ received_messages' = [received_messages EXCEPT ![commander_id] = <<>>]
    /\ decision' = [decision EXCEPT ![commander_id] = value]
    /\ pc' = "rounds"
    /\ round_num' = 0
    /\ source_idx' = 1
    /\ target_idx' = 1
    /\ UNCHANGED <<ret, checked>>
    /\ UNCHANGED tester_fixed

\* round 0, one iteration of the loop of Commander.broadcast_initial
tester_broadcast_initial ==
    /\ pc = "rounds"
    /\ round_num = 0
    /\ round_num < call.max_rounds
    /\ LET neighbors == SortedSeq(graph[commander_id])
       IN /\ target_idx <= Len(neighbors)
          /\ received_messages' =
                 [received_messages EXCEPT ![neighbors[target_idx]] =
                     tester_receive_message(@, round_num, initial_value)]
    /\ target_idx' = target_idx + 1
    /\ UNCHANGED <<is_traitor, initial_value, decision, pc, call, round_num,
                   source_idx, ret, checked>>
    /\ UNCHANGED tester_fixed

\* rounds >= 1, one iteration of the neighbour loop of the current node, or the
\* step to the next node when the node is the commander or its neighbours are done
tester_send ==
    /\ pc = "rounds"
    /\ round_num >= 1
    /\ round_num < call.max_rounds
    /\ source_idx <= Len(node_ids)
    /\ LET node_id == node_ids[source_idx]
           neighbors == SortedSeq(graph[node_id])
       IN IF node_id = commander_id \/ target_idx > Len(neighbors)
          THEN /\ source_idx' = source_idx + 1
               /\ target_idx' = 1
               /\ UNCHANGED received_messages
          ELSE /\ target_idx' = target_idx + 1
               /\ UNCHANGED source_idx
               /\ IF neighbors[target_idx] = commander_id
                  THEN UNCHANGED received_messages
                  ELSE \E sent_value \in
                           (IF is_traitor[node_id] THEN Values
                            ELSE {tester_value_to_send(received_messages[node_id],
                                                       round_num)}) :
                           received_messages' =
                               [received_messages EXCEPT ![neighbors[target_idx]] =
                                   tester_receive_message(@, round_num, sent_value)]
    /\ UNCHANGED <<is_traitor, initial_value, decision, pc, call, round_num, ret, checked>>
    /\ UNCHANGED tester_fixed

\* the end of run_round(round_num)
tester_end_round ==
    /\ pc = "rounds"
    /\ round_num < call.max_rounds
    /\ \/ round_num = 0 /\ target_idx > Cardinality(graph[commander_id])
       \/ round_num >= 1 /\ source_idx > Len(node_ids)
    /\ round_num' = round_num + 1
    /\ source_idx' = 1
    /\ target_idx' = 1
    /\ UNCHANGED <<is_traitor, initial_value, received_messages, decision, pc, call,
                   ret, checked>>
    /\ UNCHANGED tester_fixed

\* the final voting of run_consensus and its return
tester_final_voting ==
    /\ pc = "rounds"
    /\ round_num = call.max_rounds
    /\ decision' = [node_id \in Range(node_ids) |-> tester_vote(received_messages[node_id])]
    /\ ret' = ReturnedDecisions(
                  [node_id \in Range(node_ids) |-> tester_vote(received_messages[node_id])])
    /\ pc' = "returned"
    /\ UNCHANGED <<is_traitor, initial_value, received_messages, call, round_num,
                   source_idx, target_idx, checked>>
    /\ UNCHANGED tester_fixed

\* check_consensus(decisions) on the decisions the run returned
tester_check_consensus_call ==
    /\ pc = "returned"
    /\ checked = NoCheck
    /\ checked' = [called |-> TRUE, decisions |-> ret.decisions,
                   result |-> tester_check_consensus(ret.decisions)]
    /\ UNCHANGED <<is_traitor, initial_value, received_messages, decision, pc, call,
                   round_num, source_idx, target_idx, ret>>
    /\ UNCHANGED tester_fixed

NextTester ==
    \/ \E max_rounds \in 0..MaxRounds, value \in Values :
           tester_run_consensus(max_rounds, value)
    \/ tester_broadcast_initial
    \/ tester_send
    \/ tester_end_round
    \/ tester_final_voting
    \/ tester_check_consensus_call

SpecTester == InitTester /\ [][NextTester]_vars

(***************************************************************************)
(* Specification SpecGraph: the pure graph operations applied to every     *)
(* undirected simple graph on 2..MaxGraphNodes nodes.  The operations read *)
(* the graph and change nothing; query records the last call.              *)
(***************************************************************************)
InitGraph ==
    \E n \in 2..MaxGraphNodes :
    \E g \in SimpleGraphs(n) :
        /\ node_ids = AscendingIds(n)
        /\ graph = g
        /\ is_traitor = [i \in NodeSet(n) |-> FALSE]
        /\ commander_id = 0
        /\ initial_value = ATTACK
        /\ received_messages = [i \in NodeSet(n) |-> <<>>]
        /\ decision = [i \in NodeSet(n) |-> IF i = 0 THEN ATTACK ELSE "None"]
        /\ pc = "idle"
        /\ call = NoCall
        /\ round_num = 0
        /\ source_idx = 0
        /\ target_idx = 0
        /\ source_value = "None"
        /\ ret = NotCalled
        /\ checked = NoCheck
        /\ query = NoQuery
        /\ commanders = {0}
        /\ network_nodes = [i \in NodeSet(n) |-> "self"]
        /\ other_messages = <<>>
        /\ other_decision = <<>>
        /\ first_run = NoRun
        /\ no_engine

system_vars == <<node_ids, graph, is_traitor, commander_id, initial_value,
                 received_messages, decision, pc, call, round_num, source_idx,
                 target_idx, source_value, ret, checked, commanders, network_nodes,
                 other_messages, other_decision, first_run, engine_vars>>

calculate_node_connectivity_call ==
    /\ query = NoQuery
    /\ query' = [op |-> "calculate_node_connectivity",
                 result |-> calculate_node_connectivity(graph, node_ids)]
    /\ UNCHANGED system_vars

verify_connectivity_call(m, use_signed_messages) ==
    /\ query = NoQuery
    /\ query' = [op |-> "verify_connectivity",
                 m |-> m,
                 use_signed_messages |-> use_signed_messages,
                 result |-> verify_connectivity(graph, node_ids, m, use_signed_messages)]
    /\ UNCHANGED system_vars

find_disjoint_paths_call(source, target, k) ==
    /\ query = NoQuery
    /\ query' = [op |-> "find_disjoint_paths",
                 source |-> source,
                 target |-> target,
                 k |-> k,
                 result |-> find_disjoint_paths(graph, source, target, k)]
    /\ UNCHANGED system_vars

\* find_all_paths(source, target, max_length); source and target may name a
\* node that is not in the graph
find_all_paths_max_length_call(source, target, max_length) ==
    /\ query = NoQuery
    /\ query' = [op |-> "find_all_paths",
                 source |-> source,
                 target |-> target,
                 max_length |-> max_length,
                 result |-> find_all_paths(graph, source, target, max_length)]
    /\ UNCHANGED system_vars

NextGraph ==
    \/ calculate_node_connectivity_call
    \/ \E m \in 0..MaxM, use_signed_messages \in BOOLEAN :
           verify_connectivity_call(m, use_signed_messages)
    \/ \E source \in Range(node_ids), target \in Range(node_ids), k \in 0..MaxK :
           find_disjoint_paths_call(source, target, k)
    \/ \E source \in 0..UnregisteredId, target \in 0..UnregisteredId,
          max_length \in 0..MaxGraphNodes :
           find_all_paths_max_length_call(source, target, max_length)

SpecGraph == InitGraph /\ [][NextGraph]_vars

\* the entries a log holds for round r
EntriesOfRound(log, r) == IF r \in DOMAIN log THEN log[r] ELSE <<>>

(***************************************************************************)
(* Specification SpecEngine: the door system of src/model/system.py, a     *)
(* NetworkState of 3f+1 nodes, its ConsensusEngine and the PlayerActions   *)
(* on them.  A call is one step.  Every random.choice of a Byzantine node  *)
(* is a free choice.  PlayerActions.actions_this_round is left out: it is  *)
(* read by detect_attack only, whose verdict is the attack_detected entry  *)
(* of a result and changes nothing; the texts of the "message" entries     *)
(* are kept without the node id formatted into them.                       *)
(***************************************************************************)
HEALTHY == "HEALTHY"
CRASHED == "CRASHED"
BYZANTINE == "BYZANTINE"
OPEN == "OPEN"
LOCKED == "LOCKED"
VoteValues == {OPEN, LOCKED}
PRE_PREPARE == "PRE_PREPARE"
PREPARE == "PREPARE"
COMMIT == "COMMIT"
MAINTENANCE == "MAINTENANCE"
NORMAL == "NORMAL"
failsafe_threshold == 10

\* no partial-topology system has been constructed
no_topology ==
    /\ node_ids = <<>>
    /\ graph = <<>>
    /\ is_traitor = <<>>
    /\ commander_id = 0
    /\ initial_value = "None"
    /\ received_messages = <<>>
    /\ decision = <<>>
    /\ pc = "idle"
    /\ call = NoCall
    /\ round_num = 0
    /\ source_idx = 0
    /\ target_idx = 0
    /\ source_value = "None"
    /\ ret = NotCalled
    /\ checked = NoCheck
    /\ query = NoQuery
    /\ commanders = {}
    /\ network_nodes = <<>>
    /\ other_messages = <<>>
    /\ other_decision = <<>>
    /\ first_run = NoRun

\* NetworkState.initialize_nodes: the nodes beyond f start crashed
initialize_nodes(fault_tolerance) ==
    [i \in 0..(3 * fault_tolerance) |-> IF i > fault_tolerance THEN CRASHED ELSE HEALTHY]

\* result holds the last call made on the door system (its name, the proposal
\* of a consensus round) with the entries of the dict it returned; at first no
\* call has been made
NoResult == [op |-> "none"]

\* NetworkState(f), ConsensusEngine(network), PlayerActions(network, consensus)
InitEngine ==
    \E fault_tolerance \in 0..MaxF :
        /\ network_f = fault_tolerance
        /\ state = initialize_nodes(fault_tolerance)
        /\ security_level = NORMAL
        /\ current_round = 0
        /\ failed_rounds_count = 0
        /\ failsafe_active = FALSE
        /\ current_door_state = LOCKED
        /\ pre_prepare_messages = <<>>
        /\ prepare_messages = <<>>
        /\ commit_messages = <<>>
        /\ result = NoResult
        /\ no_topology

count_healthy_nodes == Cardinality({i \in DOMAIN state : state[i] = HEALTHY})

can_reach_maintenance_level == count_healthy_nodes >= 3 * network_f + 1

\* the nodes a phase loops over: self.network_state.nodes without the crashed ones
not_crashed ==
    LET is_not_crashed(node) == state[node] # CRASHED
    IN SelectSeq([k \in 1..(3 * network_f + 1) |-> k - 1], is_not_crashed)

byzantine_nodes == {i \in DOMAIN state : state[i] = BYZANTINE}

Message(msg_type, sender_id, receiver_id, value, r) ==
    [type |-> msg_type, sender_id |-> sender_id, receiver_id |-> receiver_id,
     value |-> value, round_num |-> r]

\* phase_1_pre_prepare: the list of PRE_PREPARE messages; lie[i] is the value
\* random.choice gives a Byzantine commander for node i
phase_1_pre_prepare(proposal, lie) ==
    [k \in 1..Len(not_crashed) |->
        Message(PRE_PREPARE, 0, not_crashed[k],
                IF state[0] = BYZANTINE THEN lie[not_crashed[k]] ELSE proposal,
                current_round)]

get_pre_prepare_value_for_node(pre_prepare, node_id) ==
    IF \E k \in 1..Len(pre_prepare) : pre_prepare[k].receiver_id = node_id
    THEN pre_prepare[Min({k \in 1..Len(pre_prepare) :
                             pre_prepare[k].receiver_id = node_id})].value
    ELSE "None"

\* the list a node loop and a loop over the receivers nested in it append to;
\* value_of[sender][receiver] is the value of the message
Broadcasts(msg_type, senders, receivers, value_of) ==
    [k \in 1..(Len(senders) * Len(receivers)) |->
        LET sender == senders[((k - 1) \div Len(receivers)) + 1]
            receiver == receivers[((k - 1) % Len(receivers)) + 1]
        IN Message(msg_type, sender, receiver, value_of[sender][receiver], current_round)]

\* phase_2_prepare: the list of PREPARE messages; lie[i][j] is the value
\* random.choice gives Byzantine node i for node j
phase_2_prepare(pre_prepare, lie) ==
    LET has_value(node) == get_pre_prepare_value_for_node(pre_prepare, node) # "None"
        senders == SelectSeq(not_crashed, has_value)
        broadcast_value ==
            [node \in Range(senders) |-> [other_node \in Range(not_crashed) |->
                IF state[node] = BYZANTINE THEN lie[node][other_node]
                ELSE get_pre_prepare_value_for_node(pre_prepare, node)]]
    IN Broadcasts(PREPARE, senders, not_crashed, broadcast_value)

\* the number of senders whose first message in the list carries the value
first_per_sender(messages, value) ==
    Cardinality({k \in 1..Len(messages) :
                    /\ messages[k].value = value
                    /\ \A j \in 1..(k - 1) : messages[j].sender_id # messages[k].sender_id})

\* a count that takes every message of the list
count_every_message(prepare, node_id) ==
    [value \in VoteValues |->
        Cardinality({k \in 1..Len(prepare) : prepare[k].value = value})]

\* count_prepare_messages_for_node: one message per sender, whoever it is for
count_prepare_messages_for_node(prepare, node_id) ==
    [value \in VoteValues |-> first_per_sender(prepare, value)]

\* the value for which a count reaches 2f+1, OPEN looked at first
value_with_quorum(counts) ==
    IF counts[OPEN] >= 2 * network_f + 1 THEN OPEN
    ELSE IF counts[LOCKED] >= 2 * network_f + 1 THEN LOCKED
    ELSE "None"

\* phase_3_commit, the node loop: the list of COMMIT messages; lie[i] is the
\* value random.choice gives Byzantine node i
phase_3_commit_messages(prepare, lie) ==
    LET seen(node) == value_with_quorum(count_prepare_messages_for_node(prepare, node))
        has_seen(node) == seen(node) # "None"
        senders == SelectSeq(not_crashed, has_seen)
        commit_value ==
            [node \in Range(senders) |-> [other_node \in Range(not_crashed) |->
                IF state[node] = BYZANTINE THEN lie[node] ELSE seen(node)]]
    IN Broadcasts(COMMIT, senders, not_crashed, commit_value)

\* phase_3_commit, the final count over unique senders
phase_3_commit(commit) ==
    value_with_quorum([value \in VoteValues |-> first_per_sender(commit, value)])

\* the result of a failed round
Failure(commander_proposal, reason, phase_reached) ==
    [op |-> "run_consensus_round", commander_proposal |-> commander_proposal,
     success |-> FALSE, reason |-> reason, phase_reached |-> phase_reached]

\* a failed round that never triggers the failsafe
round_fails_without_failsafe(commander_proposal, reason, phase_reached) ==
    /\ failed_rounds_count' = failed_rounds_count + 1
    /\ result' = Failure(commander_proposal, reason, phase_reached)
    /\ UNCHANGED <<failsafe_active, current_door_state, current_round>>

\* "self.failed_rounds_count += 1; self.check_failsafe(); return {...}"
round_fails(commander_proposal, reason, phase_reached) ==
    /\ failed_rounds_count' = failed_rounds_count + 1
    /\ failsafe_active' = (failsafe_active \/ failed_rounds_count + 1 >= failsafe_threshold)
    /\ result' = Failure(commander_proposal, reason, phase_reached)
    /\ UNCHANGED <<current_door_state, current_round>>

\* a pre-check that lets every round through to the phases
round_runs_unchecked == FALSE

\* the pre-check of run_consensus_round stops the round
round_stops_at_pre_check ==
    count_healthy_nodes < 2 * network_f + 1 \/ state[0] # HEALTHY

\* ConsensusEngine.run_consensus_round(commander_proposal)
run_consensus_round(commander_proposal) ==
    /\ failed_rounds_count < MaxFailedRounds
    /\ current_round < MaxCurrentRound
    /\ IF round_stops_at_pre_check
       THEN /\ pre_prepare_messages' = <<>>
            /\ prepare_messages' = <<>>
            /\ commit_messages' = <<>>
            /\ round_fails(commander_proposal,
                           IF count_healthy_nodes < 2 * network_f + 1
                           THEN "Insufficient healthy nodes"
                           ELSE "Commander is not healthy",
                           "pre-check")
       ELSE \E lie_1 \in [IF state[0] = BYZANTINE THEN Range(not_crashed) ELSE {}
                             -> VoteValues],
               lie_2 \in [byzantine_nodes -> [Range(not_crashed) -> VoteValues]],
               lie_3 \in [byzantine_nodes -> VoteValues] :
                /\ pre_prepare_messages' = phase_1_pre_prepare(commander_proposal, lie_1)
                /\ prepare_messages' =
                       IF Len(pre_prepare_messages') > 0
                       THEN phase_2_prepare(pre_prepare_messages', lie_2) ELSE <<>>
                /\ commit_messages' =
                       IF Len(prepare_messages') > 0
                       THEN phase_3_commit_messages(prepare_messages', lie_3) ELSE <<>>
                /\ IF Len(pre_prepare_messages') = 0
                      THEN round_fails(commander_proposal, "Pre-prepare phase failed", "pre-prepare")
                   ELSE IF Len(prepare_messages') = 0
                      THEN round_fails(commander_proposal, "Prepare phase failed", "prepare")
                   ELSE IF phase_3_commit(commit_messages') = "None"
                      THEN round_fails(commander_proposal,
                                       "Commit phase failed - no consensus", "commit")
                   ELSE /\ current_door_state' = phase_3_commit(commit_messages')
                        /\ failed_rounds_count' = 0
                        /\ current_round' = current_round + 1
                        /\ result' = [op |-> "run_consensus_round",
                                      commander_proposal |-> commander_proposal,
                                      success |-> TRUE,
                                      agreed_value |-> phase_3_commit(commit_messages'),
                                      phase_reached |-> "complete",
                                      pre_prepare_count |-> Len(pre_prepare_messages'),
                                      prepare_count |-> Len(prepare_messages'),
                                      commit_count |-> Len(commit_messages')]
                        /\ UNCHANGED failsafe_active
    /\ UNCHANGED <<network_f, state, security_level>>
    /\ UNCHANGED topology_vars

\* NetworkState.check_level_transitions
check_level_transitions ==
    /\ current_round < MaxCurrentRound
    /\ security_level' =
           IF security_level = NORMAL /\ can_reach_maintenance_level THEN MAINTENANCE
           ELSE IF security_level = MAINTENANCE /\ count_healthy_nodes < 3 * network_f + 1
                THEN NORMAL
           ELSE security_level
    /\ result' = [op |-> "check_level_transitions"]
    /\ UNCHANGED <<network_f, state, current_round, failed_rounds_count, failsafe_active,
                   current_door_state, pre_prepare_messages, prepare_messages,
                   commit_messages>>
    /\ UNCHANGED topology_vars

\* what a player action leaves alone besides the node states and the door
engine_rest == <<network_f, security_level, current_round, failed_rounds_count,
                 failsafe_active, pre_prepare_messages, prepare_messages, commit_messages>>

\* the outcome of a player action: its result and the state of the node it names
PlayerResult(op, success, message) == [op |-> op, success |-> success, message |-> message]

\* NetworkState.get_node(node_id) finds a node
is_node(node_id) == node_id \in DOMAIN state

\* PlayerActions.reboot_node(node_id)
reboot_node(node_id) ==
    /\ current_round < MaxCurrentRound
    /\ IF ~is_node(node_id)
       THEN /\ result' = PlayerResult("reboot_node", FALSE, "Invalid node ID")
            /\ UNCHANGED state
       ELSE IF state[node_id] # CRASHED
       THEN /\ result' = PlayerResult("reboot_node", FALSE, "is not crashed")
            /\ UNCHANGED state
       ELSE /\ state' = [state EXCEPT ![node_id] = HEALTHY]
            /\ result' = PlayerResult("reboot_node", TRUE, "rebooted successfully")
    /\ UNCHANGED current_door_state
    /\ UNCHANGED engine_rest
    /\ UNCHANGED topology_vars

\* PlayerActions.crash_node(node_id)
crash_node(node_id) ==
    /\ current_round < MaxCurrentRound
    /\ IF ~is_node(node_id)
       THEN /\ result' = PlayerResult("crash_node", FALSE, "Invalid node ID")
            /\ UNCHANGED state
       ELSE IF state[node_id] = CRASHED
       THEN /\ result' = PlayerResult("crash_node", FALSE, "is already crashed")
            /\ UNCHANGED state
       ELSE /\ state' = [state EXCEPT ![node_id] = CRASHED]
            /\ result' = PlayerResult("crash_node", TRUE, "crashed")
    /\ UNCHANGED current_door_state
    /\ UNCHANGED engine_rest
    /\ UNCHANGED topology_vars

\* PlayerActions.corrupt_node(node_id)
corrupt_node(node_id) ==
    /\ current_round < MaxCurrentRound
    /\ IF ~is_node(node_id)
       THEN /\ result' = PlayerResult("corrupt_node", FALSE, "Invalid node ID")
            /\ UNCHANGED state
       ELSE IF state[node_id] # HEALTHY
       THEN /\ result' = PlayerResult("corrupt_node", FALSE, "must be healthy to corrupt")
            /\ UNCHANGED state
       ELSE /\ state' = [state EXCEPT ![node_id] = BYZANTINE]
            /\ result' = PlayerResult("corrupt_node", TRUE, "corrupted")
    /\ UNCHANGED current_door_state
    /\ UNCHANGED engine_rest
    /\ UNCHANGED topology_vars

\* a command that is obeyed at every security level
command_door_at_any_level(value) ==
    /\ current_round < MaxCurrentRound
    /\ current_door_state' = value
    /\ result' = [op |-> "command_door", success |-> TRUE, message |-> "Door commanded",
                  door_opened |-> (value = OPEN),
                  win_type |-> IF value = OPEN THEN "restoration" ELSE "None"]
    /\ UNCHANGED state
    /\ UNCHANGED engine_rest
    /\ UNCHANGED topology_vars

\* PlayerActions.command_door(value)
command_door(value) ==
    /\ current_round < MaxCurrentRound
    /\ IF security_level # MAINTENANCE
       THEN /\ result' = PlayerResult("command_door", FALSE,
                                      "Must be at Maintenance level to command door")
            /\ UNCHANGED current_door_state
       ELSE /\ current_door_state' = value
            /\ result' = [op |-> "command_door", success |-> TRUE,
                          message |-> "Door commanded",
                          door_opened |-> (value = OPEN),
                          win_type |-> IF value = OPEN THEN "restoration" ELSE "None"]
    /\ UNCHANGED state
    /\ UNCHANGED engine_rest
    /\ UNCHANGED topology_vars

\* PlayerActions.exploit_door()
exploit_door ==
    /\ current_round < MaxCurrentRound
    /\ IF ~failsafe_active
       THEN /\ result' = PlayerResult("exploit_door", FALSE,
                                      "Failsafe not active - cannot exploit door")
            /\ UNCHANGED current_door_state
       ELSE /\ current_door_state' = OPEN
            /\ result' = [op |-> "exploit_door", success |-> TRUE,
                          message |-> "Door exploited (failsafe)",
                          door_opened |-> TRUE, win_type |-> "sabotage"]
    /\ UNCHANGED state
    /\ UNCHANGED engine_rest
    /\ UNCHANGED topology_vars

NextEngine ==
    \/ \E commander_proposal \in VoteValues : run_consensus_round(commander_proposal)
    \/ check_level_transitions
    \/ \E node_id \in 0..(3 * network_f + 1) : reboot_node(node_id)
    \/ \E node_id \in 0..(3 * network_f + 1) : crash_node(node_id)
    \/ \E node_id \in 0..(3 * network_f + 1) : corrupt_node(node_id)
    \/ \E value \in VoteValues : command_door(value)
    \/ exploit_door

SpecEngine == InitEngine /\ [][NextEngine]_vars

(***************************************************************************)
(* Properties of the consensus runs (specification Spec).                  *)
(***************************************************************************)
Traitors == {i \in Range(node_ids) : is_traitor[i]}

\* the non-commander nodes that are not traitors
LoyalLieutenants == {i \in Range(node_ids) : ~is_traitor[i] /\ i # commander_id}

\* the gate of a call with fault bound m fails on the graph
GateFails(variant, m) ==
    calculate_node_connectivity(graph, node_ids)
        < (IF variant = "signed" THEN m + 1 ELSE 2 * m + 1)

GateFailsForCall == GateFails(call.variant, call.m)

\* C1: when the connectivity gate fails for the call's m (oral: 2m+1, signed:
\* m+1), the call returns None at once: no round is executed, no message is
\* sent, and every node's received log and decision are what they were before
\* the call.
C1_GateFailureReturnsNone ==
    [][/\ (pc = "idle" /\ pc' # "idle" /\ GateFails(call'.variant, call'.m))
             => /\ pc' = "returned"
                /\ ret' = ReturnedNone
                /\ round_num' = round_num
                /\ received_messages' = received_messages
                /\ decision' = decision
       /\ (pc = "returned" /\ ret = ReturnedNone)
             => /\ pc' = "returned"
                /\ ret' = ReturnedNone
                /\ round_num' = round_num
                /\ received_messages' = received_messages
                /\ decision' = decision]_vars

C1_Witness ==
    /\ pc = "returned"
    /\ ret = ReturnedNone
    /\ GateFailsForCall
    /\ call.m = 1
    /\ Traitors # {}

\* the complete graph on four nodes, m = 1, a Commander with initial value
\* ATTACK, a run with initial value ATTACK that has returned
CompleteFourAttackReturned ==
    /\ Len(node_ids) = 4
    /\ graph = CompleteGraph(4)
    /\ initial_value = ATTACK
    /\ ~is_traitor[commander_id]
    /\ pc = "returned"
    /\ call.m = 1
    /\ call.initial_value = ATTACK

\* C2: on the complete graph with 4 nodes, m = 1, a loyal commander with
\* initial value ATTACK and exactly one Byzantine lieutenant, the oral and the
\* signed run both return decisions in which every loyal lieutenant decides
\* ATTACK, and check_consensus on them returns True.
C2_OneTraitorCompleteFour ==
    (CompleteFourAttackReturned /\ Cardinality(Traitors) = 1)
        => /\ ret.status = "decisions"
           /\ \A i \in LoyalLieutenants : ret.decisions[i] = ATTACK
           /\ checked.called => checked.result = Returned(TRUE)

C2_Witness ==
    /\ CompleteFourAttackReturned
    /\ commander_id = 0
    /\ Traitors = {2}
    /\ call.variant = "oral"
    /\ checked.called
    /\ checked.result = Returned(TRUE)
    /\ \E i \in Range(node_ids) : \E e \in unique_messages(received_messages[i], 1) :
           e[1] = RETREAT

\* C3: on the complete graph with 4 nodes, m = 1, no Byzantine node and a
\* loyal commander with initial value ATTACK, the oral and the signed run pass
\* the connectivity gate and return decisions in which every node decides
\* ATTACK; check_consensus on them returns True.
C3_NoTraitorCompleteFour ==
    (CompleteFourAttackReturned /\ Traitors = {})
        => /\ ret.status = "decisions"
           /\ \A i \in Range(node_ids) : ret.decisions[i] = ATTACK
           /\ checked.called => checked.result = Returned(TRUE)

C3_Witness ==
    /\ CompleteFourAttackReturned
    /\ Traitors = {}
    /\ call.variant = "signed"
    /\ checked.called
    /\ checked.result = Returned(TRUE)

\* IC1 of a decision map: the loyal lieutenants' decisions are pairwise equal
IC1(decisions) ==
    \A i \in LoyalLieutenants, j \in LoyalLieutenants : decisions[i] = decisions[j]

\* IC2 of a decision map: every loyal lieutenant decides the commander's initial value
IC2(decisions) == \A i \in LoyalLieutenants : decisions[i] = initial_value

CommanderRunReturned ==
    /\ pc = "returned"
    /\ ret.status = "decisions"
    /\ initial_value \in Values

\* C11: after final_voting the commander's decision equals its own initial
\* value, whatever the commander received during the rounds (nothing included).
C11_CommanderKeepsInitialValue ==
    CommanderRunReturned =>
        /\ decision[commander_id] = initial_value
        /\ ret.decisions[commander_id] = initial_value

\* some pair of distinct nodes has fewer than k_paths disjoint paths
SomePairShortOfPaths ==
    \E source \in Range(node_ids), target \in Range(node_ids) :
        /\ source # target
        /\ Len(find_disjoint_paths(graph, source, target, call.k_paths)) < call.k_paths

\* C12: a run whose connectivity gate passed terminates: it executes its m + 1
\* rounds and final voting and returns a decision map with exactly one entry,
\* ATTACK or RETREAT, for every registered node, also when some pair of nodes
\* has fewer than k disjoint paths.
C12_RunTerminatesWithDecisions ==
    (pc = "rounds") ~>
        (/\ pc = "returned"
         /\ ret.status = "decisions"
         /\ round_num = call.m + 1
         /\ DOMAIN ret.decisions = Range(node_ids)
         /\ \A i \in Range(node_ids) : ret.decisions[i] \in Values)

C12_Witness ==
    /\ pc = "returned"
    /\ ret.status = "decisions"
    /\ round_num = call.m + 1
    /\ SomePairShortOfPaths

\* C34: whenever verify_connectivity passes for m >= 0 (k = 2m+1 oral, k = m+1
\* signed), find_disjoint_paths(s, t, k) returns exactly k paths for every
\* ordered pair of distinct nodes s, t, so that send_via_multipath never has
\* to route over fewer than k paths after a passed gate.
C34_PassedGateGivesKPaths ==
    (query.op = "verify_connectivity" /\ query.result) =>
        \A source \in Range(node_ids), target \in Range(node_ids) :
            source # target =>
                Len(find_disjoint_paths(graph, source, target,
                        required_connectivity(query.m, query.use_signed_messages)))
                    = required_connectivity(query.m, query.use_signed_messages)

\* a run that passed its gate is in progress or has returned
RunPassedGate == pc = "rounds" \/ (pc = "returned" /\ ret.status = "decisions")

\* C35: in a run started with empty logs, every entry a node logs for round 0
\* carries the initial value passed to the run, whatever the traitor set, and
\* every node with at least one round-0 entry has round-0 majority equal to
\* that initial value.
C35_RoundZeroCarriesInitialValue ==
    RunPassedGate =>
        \A i \in DOMAIN received_messages :
            LET entries == EntriesOfRound(received_messages[i], 0)
            IN /\ \A k \in 1..Len(entries) : entries[k][1] = call.initial_value
               /\ Len(entries) > 0 =>
                      get_majority_from_paths(received_messages[i], 0) = call.initial_value

C35_Witness ==
    /\ pc = "returned"
    /\ ret.status = "decisions"
    /\ call.initial_value = RETREAT
    /\ \E i \in DOMAIN received_messages :
           LET entries == EntriesOfRound(received_messages[i], 0)
           IN \E k \in 1..Len(entries) :
                  \E t \in Range(entries[k][2]) : is_traitor[t] /\ t % 2 = 0 /\ i % 2 = 0

\* the entries a step appends to node i's log of the current round
NewEntries(i) ==
    LET old == EntriesOfRound(received_messages[i], round_num)
        new == EntriesOfRound(received_messages'[i], round_num)
    IN {new[k] : k \in (Len(old) + 1)..Len(new)}

\* the value the source of the current multipath send hands to it
HandedValue == IF round_num = 0 THEN call.initial_value ELSE source_value

\* C36: along every path used by send_via_multipath, the value a loyal node
\* emits at its hop is the value the originating source handed to the send,
\* whatever a Byzantine node earlier on the path emitted: a substituted value
\* reaches the Byzantine node's next hop only and is not passed further.
C36_LoyalHopEmitsHandedValue ==
    [][pc = "rounds" =>
          \A i \in DOMAIN received_messages :
              \A entry \in NewEntries(i) :
                  ~is_traitor[entry[2][Len(entry[2])]] => entry[1] = HandedValue]_vars

C36_Witness ==
    /\ RunPassedGate
    /\ \E i \in DOMAIN received_messages, j \in DOMAIN received_messages :
       \E r \in DOMAIN received_messages[i] \cap DOMAIN received_messages[j] :
       \E entry \in Range(received_messages[i][r]), lied \in Range(received_messages[j][r]) :
           /\ r >= 1
           /\ ~is_traitor[entry[2][Len(entry[2])]]
           /\ is_traitor[lied[2][Len(lied[2])]]
           /\ lied[2][Len(lied[2])] \in Range(entry[2])
           /\ lied[2][1] = entry[2][1]
           /\ entry[2][Len(entry[2])] = j
           /\ lied[1] # entry[1]

\* C37: in every reachable state the commander has is_traitor = False, so
\* check_consensus always evaluates IC2: it returns True exactly when every
\* loyal non-commander decision equals the commander's stored initial value.
C37_CommanderLoyalIC2Evaluated ==
    /\ ~is_traitor[commander_id]
    /\ checked.called =>
           checked.result =
               Returned(\A nid \in loyal_nodes(checked.decisions) :
                            checked.decisions[nid] = initial_value)

\* C38: the decision map returned by run_oral_consensus / run_signed_consensus
\* does not depend on the order in which the nodes were registered, which is
\* the order in which a round processes them: the same call on the same
\* graph, traitor set and commander registered in any other order returns
\* what it returned for the first order.
C38_RegistrationOrderIrrelevant ==
    (first_run.done /\ pc = "returned") => ret = first_run.ret

C38_Witness ==
    /\ first_run.done
    /\ pc = "returned"
    /\ ret.status = "decisions"
    /\ call.m = 1
    /\ call.variant = "oral"
    /\ Len(node_ids) = 4
    /\ node_ids[1] > node_ids[2]
    /\ node_ids[3] > node_ids[4]
    /\ Traitors # {}
    /\ \E i \in Range(node_ids), j \in Range(node_ids) : ret.decisions[i] # ret.decisions[j]

\* C14: final_voting called a second time with no message received since the
\* first call returns the same decision map, and no call of final_voting, the one
\* that ends a run included, changes any node's received log.
C14_FinalVotingIdempotent ==
    [][/\ (pc = "rounds" /\ pc' = "returned")
             => /\ received_messages' = received_messages
                /\ other_messages' = other_messages
       /\ (query.op = "none" /\ query'.op = "final_voting")
             => /\ received_messages' = received_messages
                /\ other_messages' = other_messages
                /\ query'.result = ret.decisions
                /\ decision' = decision]_vars

C14_Witness ==
    /\ query.op = "final_voting"
    /\ query.result = ret.decisions
    /\ \E i \in Range(node_ids), j \in Range(node_ids) :
           /\ query.result[i] # query.result[j]
           /\ received_messages[i] # <<>>
           /\ received_messages[j] # <<>>

\* node t has logged, in a round r >= 1, a relay of source s although t is in
\* the path (the signer chain) of every message s had logged in round r - 1
RelayedToSigner(t) ==
    \E r \in DOMAIN received_messages[t] :
        /\ r >= 1
        /\ \E k \in 1..Len(received_messages[t][r]) :
               LET source == received_messages[t][r][k][2][1]
               IN /\ source # t
                  /\ (r - 1) \in DOMAIN received_messages[source]
                  /\ \A f \in Range(received_messages[source][r - 1]) : t \in Range(f[2])

\* C15: in the signed variant a node relays, in rounds 1..m, a signed value
\* only to nodes that are not in the value's signer chain: no node logs a relay
\* of a value whose chain it is in already.
C15_SignedRelaySkipsSigners ==
    (pc # "idle" /\ call.variant = "signed") =>
        \A t \in Range(node_ids) : ~RelayedToSigner(t)

\* a run with m = 1 on the line 0-1-2-3-4 with commander 0 has returned
ExampleLineRunReturned ==
    /\ Len(node_ids) = ExampleLineNodes
    /\ graph = LineGraph(ExampleLineNodes)
    /\ commander_id = 0
    /\ pc = "returned"
    /\ call.m = 1

DistinctPairs(log) == UNION {Range(log[r]) : r \in DOMAIN log}

\* the majority rule over the distinct pairs of a whole log
MajorityOfDistinctPairs(log) ==
    IF Cardinality({e \in DistinctPairs(log) : e[1] = ATTACK})
           > Cardinality({e \in DistinctPairs(log) : e[1] = RETREAT})
    THEN ATTACK
    ELSE RETREAT

\* C21: final_voting gives every non-commander node the decision of the
\* majority rule over its whole log with each distinct (value, path) pair
\* counted once: ATTACK iff the ATTACK pairs strictly outnumber the RETREAT
\* pairs, RETREAT otherwise.
C21_FinalVoteCountsDistinctPairs ==
    (pc = "returned" /\ ret.status = "decisions") =>
        \A i \in Range(node_ids) \ {commander_id} :
            ret.decisions[i] = MajorityOfDistinctPairs(received_messages[i])

(***************************************************************************)
\* the paths of the entries that node i logged for round r
LoggedPaths(i, r) == {received_messages[i][r][k][2] : k \in 1..Len(received_messages[i][r])}

\* no node id occurs twice in the path
HasNoRepeatedId(path) ==
    \A a \in 1..Len(path), b \in 1..Len(path) : a # b => path[a] # path[b]

\* C24: every message delivered during run_oral_consensus or
\* run_signed_consensus carries a path without a repeated node id whose first
\* element is the originating source (the commander in round 0, a
\* non-commander node in a later round) and whose last element is the sender
\* of the hop, a neighbour of the node that logged it.
C24_DeliveredPathsAreSimple ==
    \A i \in Range(node_ids) :
        \A r \in DOMAIN received_messages[i] :
            \A path \in LoggedPaths(i, r) :
                /\ HasNoRepeatedId(path)
                /\ (path[1] = commander_id) <=> (r = 0)
                /\ path[Len(path)] \in graph[i]

\* C25: a node's log for a round holds no two entries with the same path:
\* receiving a message whose path is already logged for that round adds no
\* second entry.
C25_NoTwoEntriesWithSamePath ==
    \A i \in Range(node_ids) :
        \A r \in DOMAIN received_messages[i] :
            \A a \in 1..Len(received_messages[i][r]), b \in 1..Len(received_messages[i][r]) :
                a # b => received_messages[i][r][a][2] # received_messages[i][r][b][2]

\* the step starts a run of the oral variant whose gate passed
OralStart == pc = "idle" /\ pc' = "rounds" /\ call'.variant = "oral"

\* the step is taken inside the round loop of the oral variant
OralRound == pc = "rounds" /\ call.variant = "oral"

\* the step is one multipath send of the current round over 2m+1 paths
OriginatedSend(source, target, value) ==
    received_messages' =
        send_via_multipath(received_messages, source, target, value, round_num,
                           2 * call.m + 1)

\* the step leaves the entries logged under every round but the current one
LoggedUnderCurrentRound ==
    \A i \in Range(node_ids) :
        \A r \in (DOMAIN received_messages[i] \cup DOMAIN received_messages'[i]) \ {round_num} :
            EntriesOfRound(received_messages'[i], r) = EntriesOfRound(received_messages[i], r)

\* a step of round 0: the commander sends the initial value to the next node
\* of self.nodes, itself excepted
RoundZeroStep ==
    /\ target_idx \in 1..Len(node_ids)
    /\ target_idx' = target_idx + 1
    /\ IF node_ids[target_idx] # commander_id
       THEN OriginatedSend(commander_id, node_ids[target_idx], call.initial_value)
       ELSE UNCHANGED received_messages

\* a step of a round 1..m: the next source is taken up (the commander is passed
\* over), or the current non-commander source sends to the next node of
\* self.nodes, itself excepted
LaterRoundStep ==
    LET source == node_ids[source_idx]
    IN \/ /\ UNCHANGED received_messages
          /\ \/ /\ source_idx' = source_idx + 1
                /\ source = commander_id \/ target_idx = Len(node_ids) + 1
             \/ /\ source_idx' = source_idx
                /\ source # commander_id
                /\ target_idx = 0
                /\ target_idx' = 1
       \/ /\ source # commander_id
          /\ target_idx \in 1..Len(node_ids)
          /\ target_idx' = target_idx + 1
          /\ source_idx' = source_idx
          /\ IF node_ids[target_idx] # source
             THEN OriginatedSend(source, node_ids[target_idx], source_value)
             ELSE UNCHANGED received_messages

\* C26: a passing run_oral_consensus(m, v) executes exactly the rounds
\* 0, 1, ..., m in increasing order with k = 2m+1 paths per pair: in round 0
\* only the commander originates multipath sends, one to every other node with
\* value v; in every round 1..m every non-commander node originates one
\* multipath send to every other node and the commander none; every message is
\* logged under the round in which it was sent.
C26_OralRoundSchedule ==
    [][/\ OralStart =>
           /\ round_num' = 0
           /\ target_idx' = 1
           /\ call'.k_paths = 2 * call'.m + 1
       /\ OralRound =>
           /\ round_num <= call.m + 1
           /\ LoggedUnderCurrentRound
           /\ pc' = "returned" =>
                  /\ round_num = call.m + 1
                  /\ UNCHANGED received_messages
           /\ (pc' = "rounds" /\ round_num' # round_num) =>
                  /\ round_num' = round_num + 1
                  /\ round_num <= call.m
                  /\ UNCHANGED received_messages
                  /\ IF round_num = 0 THEN target_idx = Len(node_ids) + 1
                     ELSE source_idx = Len(node_ids) + 1
                  /\ source_idx' = 1
           /\ (pc' = "rounds" /\ round_num' = round_num) =>
                  IF round_num = 0 THEN RoundZeroStep ELSE LaterRoundStep
      ]_vars

C26_Witness ==
    /\ pc = "returned"
    /\ ret.status = "decisions"
    /\ call.variant = "oral"
    /\ call.m = 1
    /\ round_num = 2
    /\ Len(node_ids) = 4
    /\ DOMAIN received_messages[commander_id] = {1}
    /\ \A i \in Range(node_ids) \ {commander_id} : DOMAIN received_messages[i] = {0, 1}

\* a non-commander source of a round 1..m of the oral variant is sending
OralSourceSending ==
    /\ pc = "rounds"
    /\ call.variant = "oral"
    /\ round_num >= 1
    /\ source_idx \in 1..Len(node_ids)
    /\ target_idx >= 1

\* C27: in every round r in 1..m of the oral variant the value a non-commander
\* source hands to its multipath sends is the majority
\* (get_majority_from_paths) of the source's round r-1 log as it stood at the
\* end of round r-1, and no message sent during round r changes any node's
\* round r-1 log.
C27_SourceSendsPreviousRoundMajority ==
    /\ [](OralSourceSending =>
             source_value = get_majority_from_paths(
                                received_messages[node_ids[source_idx]], round_num - 1))
    /\ [][(OralRound /\ round_num >= 1) =>
             \A i \in Range(node_ids) :
                 EntriesOfRound(received_messages'[i], round_num - 1)
                     = EntriesOfRound(received_messages[i], round_num - 1)]_vars

C27_Witness ==
    /\ OralSourceSending
    /\ target_idx = Len(node_ids) + 1
    /\ ~is_traitor[node_ids[source_idx]]
    /\ Traitors # {}
    /\ source_value = ATTACK
    /\ get_majority_from_paths(received_messages[node_ids[source_idx]], round_num) = RETREAT

\* the step belongs to a run: it starts one, is taken inside the round loop,
\* returns from it, or is a final_voting call on a system whose run returned
StepOfRun == pc # "idle" \/ pc' # "idle"

\* C30: no step of run_oral_consensus, run_signed_consensus,
\* send_via_multipath or final_voting changes any node's is_traitor flag, the
\* commander id, the node set or the adjacency graph.
C30_RunLeavesSetupUnchanged ==
    [][StepOfRun => UNCHANGED <<is_traitor, commander_id, node_ids, graph, commanders>>]_vars

C30_Witness ==
    /\ pc = "returned"
    /\ ret.status = "decisions"
    /\ call.variant = "signed"
    /\ call.m = 1
    /\ query.op = "final_voting"
    /\ Traitors # {}
    /\ \E i \in Range(node_ids) : DOMAIN received_messages[i] = {0, 1}

(* Properties of BFTTester (specification SpecTester).                     *)
(***************************************************************************)
\* C19: in BFTTester, on a complete graph with no traitor, run_consensus with
\* max_rounds >= 1 and either initial value returns decisions in which every
\* non-commander node decides the commander's initial value, and
\* check_consensus on them returns True.
C19_TesterCompleteGraphAgrees ==
    (/\ pc = "returned"
     /\ graph = CompleteGraph(Len(node_ids))
     /\ Traitors = {}
     /\ call.max_rounds >= 1)
        => /\ \A i \in Range(node_ids) \ {commander_id} :
                  ret.decisions[i] = call.initial_value
           /\ checked.called => checked.result = Returned(TRUE)

C19_Witness ==
    /\ pc = "returned"
    /\ Len(node_ids) = 4
    /\ graph = CompleteGraph(4)
    /\ Traitors = {}
    /\ call.max_rounds = 2
    /\ call.initial_value = ATTACK
    /\ checked.called
    /\ checked.result = Returned(TRUE)
    /\ \A i \in Range(node_ids) \ {commander_id} : Len(received_messages[i][1]) = 2

(***************************************************************************)
(* Properties of the operations of a node (specification SpecNode).        *)
(***************************************************************************)
\* the number of distinct (value, path) pairs with value v among the entries of s
DistinctWithValue(s, v) == Cardinality({s[k] : k \in {j \in 1..Len(s) : s[j][1] = v}})

\* C22: get_majority_from_paths(round) returns ATTACK iff the distinct
\* (value, path) pairs with value ATTACK logged for that round strictly
\* outnumber those with value RETREAT; it returns RETREAT on a tie and for a
\* round without entries, and it leaves the log as it was.
C22_MajorityOverDistinctPairs ==
    query.op = "get_majority_from_paths" =>
        LET entries == EntriesOfRound(query.logs[query.node_id], query.round_num)
        IN /\ query.result \in Values
           /\ query.result = ATTACK <=>
                  DistinctWithValue(entries, ATTACK) > DistinctWithValue(entries, RETREAT)
           /\ received_messages = query.logs

C22_Witness ==
    /\ query.op = "get_majority_from_paths"
    /\ query.round_num = 0
    /\ query.result = RETREAT
    /\ LET entries == EntriesOfRound(query.logs[query.node_id], 0)
       IN /\ Len(entries) = 3
          /\ Cardinality({k \in 1..3 : entries[k][1] = ATTACK}) = 2
          /\ DistinctWithValue(entries, ATTACK) = 1
          /\ DistinctWithValue(entries, RETREAT) = 1

\* the value a message must carry: the given one from a loyal sender or in
\* round 0, else ATTACK for an even recipient and RETREAT for an odd one
ExpectedValue(sender, value, target_node, r) ==
    IF ~is_traitor[sender] \/ r = 0 THEN value
    ELSE IF target_node % 2 = 0 THEN ATTACK
    ELSE RETREAT

\* C23: a send_message call emits exactly one message: the recipient logs one
\* more entry for the round, whose path is the given prefix with the sender
\* appended and whose value is the given value when the sender is loyal or
\* the round is 0, and for a Byzantine sender in a later round ATTACK for an
\* even recipient id and RETREAT for an odd one; nothing else is logged.
C23_SendEmitsOneMessage ==
    query.op = "send_message" =>
        LET entry == <<ExpectedValue(query.sender, query.value, query.target_node,
                                     query.round_num),
                       Append(query.path, query.sender)>>
        IN \A i \in Range(node_ids) :
               \A r \in DOMAIN received_messages[i] \cup DOMAIN query.logs[i] :
                   EntriesOfRound(received_messages[i], r) =
                       IF i = query.target_node /\ r = query.round_num
                       THEN Append(EntriesOfRound(query.logs[i], r), entry)
                       ELSE EntriesOfRound(query.logs[i], r)

C23_Witness ==
    /\ query.op = "send_message"
    /\ is_traitor[query.sender]
    /\ query.round_num = 1
    /\ query.value = RETREAT
    /\ query.target_node = 0
    /\ query.path = <<0>>
    /\ received_messages[0][1] = Append(EntriesOfRound(query.logs[0], 1), <<ATTACK, <<0, 1>>>>)
    /\ Len(received_messages[0][1]) = 2

(***************************************************************************)
(* Properties of single operations (specification SpecBuild).              *)
(***************************************************************************)
\* C16: set_commander on a system that has a commander already fails with a
\* duplicate-commander error and leaves the commander as it was, so that at
\* most one node is a Commander.
C16_SecondCommanderRejected ==
    query.op = "set_commander" =>
        /\ query.result.raised = "DuplicateCommanderError"
        /\ commander_id = query.commander_before
        /\ Cardinality(commanders) <= 1

\* C17: an operation that names a node id nobody registered (a neighbour of a
\* node being added, the target of a delivery, the source or target of a
\* multipath send or of a path query) ends with an invalid-node-reference error.
C17_UnregisteredReferenceRejected ==
    (/\ query.op \in {"add_node", "deliver_message", "send_via_multipath", "find_all_paths"}
     /\ ~(query.references \subseteq query.registered))
        => query.result.raised = "InvalidNodeReferenceError"

(***************************************************************************)
(* Properties of two instances (specification SpecNetwork).                *)
(***************************************************************************)
\* C13: two runs started from identical inputs (same graph, same traitors,
\* same commander and initial value, same variant and m) return identical
\* decision maps: the run on the second, identically constructed instance
\* returns what the run on the first returned.
C13_IdenticalRunsSameDecisions ==
    (first_run.done /\ pc = "returned") => ret = first_run.ret

\* C20: a run on one instance changes only the received logs of the nodes of
\* that instance: while the first run is made, the logs of the nodes of the
\* other instance stay as constructed, whether that instance was constructed
\* before or after the running one.
C20_RunChangesOnlyOwnLogs ==
    (~first_run.done /\ DOMAIN other_messages # {}) =>
        \A id \in DOMAIN other_messages : other_messages[id] = <<>>

(***************************************************************************)
(* Properties of the graph operations (specification SpecGraph).           *)
(***************************************************************************)
\* the candidates of find_disjoint_paths: the paths find_all_paths enumerates
CandidatePaths(source, target) ==
    Range(find_all_paths(graph, source, target, DefaultMaxLength))

\* C28: find_disjoint_paths(source, target, k) returns paths in order of
\* ascending length that pairwise share no edge, at most k of them for every
\* requested k (k = 0 included); it returns fewer than k only when every
\* enumerated candidate it did not accept shares an edge with an accepted
\* path, and it returns the empty list when source equals target.
C28_GreedyAtMostKPaths ==
    query.op = "find_disjoint_paths" =>
        LET accepted == query.result
        IN /\ Len(accepted) <= query.k
           /\ query.source = query.target => accepted = <<>>
           /\ \A a \in 1..Len(accepted), b \in 1..Len(accepted) :
                  /\ a < b => Len(accepted[a]) <= Len(accepted[b])
                  /\ a # b => PathEdges(accepted[a]) \cap PathEdges(accepted[b]) = {}
           /\ (query.source # query.target /\ Len(accepted) < query.k) =>
                  \A p \in CandidatePaths(query.source, query.target) \ Range(accepted) :
                      \E q \in Range(accepted) : PathEdges(p) \cap PathEdges(q) # {}

\* the sequences of distinct nodes of the graph in which every node is a
\* neighbour of the one before it
SimplePaths ==
    {p \in UNION {[1..l -> DOMAIN graph] : l \in 1..Cardinality(DOMAIN graph)} :
        /\ \A i \in 1..Len(p), j \in 1..Len(p) : i # j => p[i] # p[j]
        /\ \A i \in 1..(Len(p) - 1) : p[i + 1] \in graph[p[i]]}

\* the simple paths from source to target with at most max_length edges
SimplePathsWithin(source, target, max_length) ==
    {p \in SimplePaths : p[1] = source /\ p[Len(p)] = target /\ Len(p) - 1 <= max_length}

\* C29: find_all_paths(source, target, max_length) returns exactly the simple
\* paths from source to target that have at most max_length hops (edges), each
\* exactly once, in order of non-decreasing length, and the empty list when
\* source or target is not in the graph.
C29_AllSimplePathsWithinMaxLength ==
    query.op = "find_all_paths" =>
        /\ Range(query.result) =
               SimplePathsWithin(query.source, query.target, query.max_length)
        /\ \A a \in 1..Len(query.result), b \in 1..Len(query.result) :
               /\ a # b => query.result[a] # query.result[b]
               /\ a < b => Len(query.result[a]) <= Len(query.result[b])
        /\ (query.source \notin DOMAIN graph \/ query.target \notin DOMAIN graph) =>
               query.result = <<>>

\* C5: verify_connectivity(m, use_signed_messages) passes iff the computed
\* connectivity is at least 2m+1 (oral) or m+1 (signed); so whenever the oral
\* gate passes for m, the signed gate passes for m as well.
C5_VerifyConnectivityThresholds ==
    query.op = "verify_connectivity" =>
        LET actual == calculate_node_connectivity(graph, node_ids)
        IN /\ query.result =
                  (actual >= (IF query.use_signed_messages
                              THEN query.m + 1
                              ELSE 2 * query.m + 1))
           /\ (~query.use_signed_messages /\ query.result)
                  => verify_connectivity(graph, node_ids, query.m, TRUE)

C5_Witness ==
    /\ query.op = "verify_connectivity"
    /\ ~query.use_signed_messages
    /\ query.m = 1
    /\ query.result
    /\ graph = CompleteGraph(4)

RECURSIVE ReachableWithin(_, _, _)
\* the nodes of allowed that can be reached from seen along edges inside allowed
ReachableWithin(g, allowed, seen) ==
    LET more == seen \cup {j \in allowed : \E i \in seen : j \in g[i]}
    IN IF more = seen THEN seen ELSE ReachableWithin(g, allowed, more)

\* removing the nodes of S leaves a graph that is not connected
Disconnects(g, S) ==
    LET rest == DOMAIN g \ S
    IN \E a \in rest : ReachableWithin(g, rest, {a}) # rest

\* the node connectivity of g: the least number of nodes whose removal
\* disconnects what remains, n - 1 when no removal of fewer nodes does
NodeConnectivity(g) ==
    LET n == Cardinality(DOMAIN g)
        cuts == {k \in 0..(n - 2) :
                    \E S \in SUBSET DOMAIN g : Cardinality(S) = k /\ Disconnects(g, S)}
    IN IF cuts = {} THEN n - 1 ELSE Min(cuts)

\* C6: for every undirected simple graph on n >= 2 nodes,
\* calculate_node_connectivity returns the node connectivity of the graph: the
\* minimum number of nodes whose removal disconnects the rest, n - 1 when no
\* removal of fewer than n - 1 nodes disconnects it.
C6_ConnectivityIsNodeConnectivity ==
    query.op = "calculate_node_connectivity" => query.result = NodeConnectivity(graph)

\* C7: for the complete graph on n >= 2 nodes calculate_node_connectivity
\* returns n - 1.
C7_CompleteGraphConnectivity ==
    (query.op = "calculate_node_connectivity" /\ graph = CompleteGraph(Len(node_ids)))
        => query.result = Len(node_ids) - 1

C7_Witness ==
    /\ query.op = "calculate_node_connectivity"
    /\ Len(node_ids) = 4
    /\ graph = CompleteGraph(4)
    /\ query.result = 3

\* C8: for the ring graph on n >= 3 nodes calculate_node_connectivity returns 2.
C8_RingConnectivity ==
    (/\ query.op = "calculate_node_connectivity"
     /\ Len(node_ids) >= 3
     /\ graph = RingGraph(Len(node_ids)))
        => query.result = 2

\* C9: for a star graph with at least 3 nodes calculate_node_connectivity
\* returns 1.
C9_StarConnectivity ==
    (/\ query.op = "calculate_node_connectivity"
     /\ Len(node_ids) >= 3
     /\ graph = StarGraph(Len(node_ids)))
        => query.result = 1

\* p is a simple path of the graph from source to target
IsSimplePathBetween(p, source, target) ==
    /\ Len(p) >= 2
    /\ p[1] = source
    /\ p[Len(p)] = target
    /\ \A i \in 1..Len(p), j \in 1..Len(p) : i # j => p[i] # p[j]
    /\ \A i \in 1..(Len(p) - 1) : p[i + 1] \in graph[p[i]]

\* the paths p and q use no common undirected edge
ShareNoEdge(p, q) ==
    \A i \in 1..(Len(p) - 1), j \in 1..(Len(q) - 1) :
        {p[i], p[i + 1]} # {q[j], q[j + 1]}

\* C10: for every graph, every pair of distinct nodes and every k, every path
\* returned by find_disjoint_paths(source, target, k) is a simple path from
\* source to target along graph edges, and no two returned paths share an
\* undirected edge.
C10_DisjointPathsAreSimpleAndDisjoint ==
    (query.op = "find_disjoint_paths" /\ query.source # query.target) =>
        /\ \A i \in 1..Len(query.result) :
               IsSimplePathBetween(query.result[i], query.source, query.target)
        /\ \A i \in 1..Len(query.result), j \in 1..Len(query.result) :
               i # j => ShareNoEdge(query.result[i], query.result[j])

C10_Witness ==
    /\ query.op = "find_disjoint_paths"
    /\ query.source # query.target
    /\ query.k = 3
    /\ Len(query.result) = 2
    /\ Len(query.result[2]) = 3
    /\ Len(find_all_paths(graph, query.source, query.target, DefaultMaxLength)) > 2

(***************************************************************************)
(* Properties of the door system (specification SpecEngine).               *)
(***************************************************************************)
\* a step that is a call of run_consensus_round: every call leaves its own result
RoundStep == result'.op = "run_consensus_round"

\* fewer than 2f+1 nodes are HEALTHY, or the commander (node 0) is not HEALTHY
QuorumOrCommanderMissing ==
    \/ Cardinality({i \in DOMAIN state : state[i] = HEALTHY}) < 2 * network_f + 1
    \/ state[0] # HEALTHY

NoMessages ==
    /\ pre_prepare_messages = <<>>
    /\ prepare_messages = <<>>
    /\ commit_messages = <<>>

\* C31: a run_consensus_round called when fewer than 2f+1 nodes are HEALTHY or
\* the commander is not HEALTHY fails at the pre-check: its result is a failure
\* with phase_reached "pre-check", the three message lists are empty after it,
\* failed_rounds_count grows by exactly one, and the door state and
\* current_round are unchanged.
C31_PreCheckFailure ==
    [][(RoundStep /\ QuorumOrCommanderMissing) =>
          /\ result'.success = FALSE
          /\ result'.phase_reached = "pre-check"
          /\ NoMessages'
          /\ failed_rounds_count' = failed_rounds_count + 1
          /\ UNCHANGED <<current_door_state, current_round>>]_vars

C31_Witness ==
    /\ result = Failure(OPEN, "Commander is not healthy", "pre-check")
    /\ state[0] = BYZANTINE
    /\ Cardinality({i \in DOMAIN state : state[i] = HEALTHY}) >= 2 * network_f + 1
    /\ network_f = 1
    /\ failed_rounds_count = 3
    /\ NoMessages


DoorNodesCounters == <<current_door_state, state, current_round, failed_rounds_count,
                       failsafe_active, security_level>>

\* C33: command_door changes the door state only when the security level is
\* MAINTENANCE (and then sets it to the commanded value); exploit_door sets the
\* door to OPEN only when failsafe_active is true; in every other state the
\* call returns a failure result and leaves the door state, the node states
\* and the counters unchanged.
C33_DoorActionsGuarded ==
    [][/\ result'.op = "command_door" =>
              IF security_level = MAINTENANCE
              THEN result'.success /\ current_door_state' \in VoteValues
                   /\ result'.door_opened = (current_door_state' = OPEN)
              ELSE ~result'.success /\ UNCHANGED DoorNodesCounters
       /\ result'.op = "exploit_door" =>
              IF failsafe_active
              THEN result'.success /\ current_door_state' = OPEN
              ELSE ~result'.success /\ UNCHANGED DoorNodesCounters]_vars

C33_Witness ==
    /\ result = PlayerResult("command_door", FALSE,
                             "Must be at Maintenance level to command door")
    /\ security_level = NORMAL
    /\ network_f = 1
    /\ count_healthy_nodes = 4
    /\ current_door_state = LOCKED
    /\ failsafe_active


\* C39: every run_consensus_round that passes the pre-check (at least 2f+1
\* HEALTHY nodes and a HEALTHY commander) succeeds, and its agreed value and
\* the door state after it equal the commander's proposal, whatever values the
\* Byzantine nodes choose in the PREPARE and COMMIT phases.
C39_PassingRoundAgreesOnProposal ==
    [][(RoundStep /\ ~QuorumOrCommanderMissing) =>
          /\ result'.success
          /\ result'.agreed_value = result'.commander_proposal
          /\ current_door_state' = result'.commander_proposal]_vars

C39_Witness ==
    /\ result.op = "run_consensus_round"
    /\ result.success
    /\ result.commander_proposal = LOCKED
    /\ current_door_state = LOCKED
    /\ \E k \in 1..Len(prepare_messages) :
          /\ state[prepare_messages[k].sender_id] = BYZANTINE
          /\ prepare_messages[k].value = OPEN
    /\ \E k \in 1..Len(commit_messages) :
          /\ state[commit_messages[k].sender_id] = BYZANTINE
          /\ commit_messages[k].value = OPEN


\* C40: command_door succeeds only in a state where all 3f+1 nodes are
\* HEALTHY: the MAINTENANCE level is never still in force after a node has
\* been crashed or corrupted.
C40_CommandOnlyWhenAllHealthy ==
    [][(result'.op = "command_door" /\ result'.success) =>
          Cardinality({i \in DOMAIN state : state[i] = HEALTHY}) = 3 * network_f + 1]_vars

====
